---- MODULE Spec2Model ----
(***************************************************************************)
(* mockingjay: route compilation and matching (internal/router), the       *)
(* request dispatcher with its bounded render and the hot reload           *)
(* (internal/server), and the timeout middleware (internal/middleware).    *)
(*                                                                         *)
(* Strings are sequences of tokens.  A token is a one-character string,    *)
(* or, inside a regular expression, one capture group written out in full  *)
(* ("(?P<id>[0-9]+)"), which the regex operators treat as one atom.        *)
(***************************************************************************)
EXTENDS Integers, Sequences, FiniteSets, TLC

\* ---------------------------------------------------------------- bounds
MaxPathLen == 3
MaxRoutes == 2
MaxSpecs == 3
NumReqs == 1
MaxConns == 2
MaxReloads == 1
MaxChunks == 1
MaxSeconds == 35
MaxEvents == 2
MaxMiddlewares == 3
MaxPatterns == 2
MaxCalls == 5
MaxWrite == 2

\* ------------------------------------------------------- string helpers
Range(s) == {s[i] : i \in 1..Len(s)}

RECURSIVE SeqsUpTo(_, _)
SeqsUpTo(S, n) ==
    IF n = 0 THEN {<<>>}
    ELSE LET shorter == SeqsUpTo(S, n - 1)
         IN  shorter \cup {Append(s, c) : s \in {t \in shorter : Len(t) = n - 1}, c \in S}

\* unicode.ToUpper / unicode.ToLower on the letters the model uses
UpperChar(c) ==
    CASE c = "g" -> "G" [] c = "e" -> "E" [] c = "t" -> "T" [] c = "p" -> "P"
      [] c = "o" -> "O" [] c = "s" -> "S" [] c = "x" -> "X" [] c = "y" -> "Y"
      [] c = "a" -> "A" [] c = "b" -> "B"
      [] OTHER -> c

LowerChar(c) ==
    CASE c = "G" -> "g" [] c = "E" -> "e" [] c = "T" -> "t" [] c = "P" -> "p"
      [] c = "O" -> "o" [] c = "S" -> "s" [] c = "X" -> "x" [] c = "Y" -> "y"
      [] c = "A" -> "a" [] c = "B" -> "b"
      [] OTHER -> c

ToUpper(s) == [i \in 1..Len(s) |-> UpperChar(s[i])]
ToLower(s) == [i \in 1..Len(s) |-> LowerChar(s[i])]

RECURSIVE TrimLeft(_), TrimRight(_)
TrimLeft(s) == IF Len(s) > 0 /\ s[1] = " " THEN TrimLeft(Tail(s)) ELSE s
TrimRight(s) == IF Len(s) > 0 /\ s[Len(s)] = " " THEN TrimRight(SubSeq(s, 1, Len(s) - 1)) ELSE s
TrimSpace(s) == TrimRight(TrimLeft(s))

\* strings.EqualFold: equal under simple case folding
EqualFold(a, b) ==
    /\ Len(a) = Len(b)
    /\ \A i \in 1..Len(a) : UpperChar(a[i]) = UpperChar(b[i])

HasPrefix(s, c) == Len(s) >= 1 /\ s[1] = c
HasSuffix(s, c) == Len(s) >= 1 /\ s[Len(s)] = c
TrimPrefix(s, c) == IF HasPrefix(s, c) THEN Tail(s) ELSE s
TrimSuffix(s, c) == IF HasSuffix(s, c) THEN SubSeq(s, 1, Len(s) - 1) ELSE s

\* --------------------------------------------------- regular expressions
Digits == {"5", "7"}
Letters == {"a", "b", "A", "B"}

GroupTokens == {"(?P<id>[0-9]+)", "(?P<n>[^/]+)", "([0-9]+)", "(?P<o>[0-9]+)?"}
BadTokens == {"(", "["}

GroupTable ==
    [t \in GroupTokens |->
        CASE t = "(?P<id>[0-9]+)" -> [name |-> "id", cls |-> Digits, opt |-> FALSE]
          [] t = "(?P<n>[^/]+)"   -> [name |-> "n", cls |-> Digits \cup Letters, opt |-> FALSE]
          [] t = "([0-9]+)"       -> [name |-> "", cls |-> Digits, opt |-> FALSE]
          [] t = "(?P<o>[0-9]+)?" -> [name |-> "o", cls |-> Digits, opt |-> TRUE]]

\* len(s) in bytes: a group token is several bytes long
RECURSIVE ByteLen(_)
ByteLen(s) ==
    IF Len(s) = 0 THEN 0
    ELSE (IF s[1] \in GroupTokens THEN 4 ELSE 1) + ByteLen(Tail(s))

\* regexp.Compile: an unbalanced "(" or "[" is a syntax error; a leading "^"
\* and a trailing "$" anchor the match
RegexpCompile(pat) ==
    LET anchS == HasPrefix(pat, "^")
        p1    == TrimPrefix(pat, "^")
        anchE == HasSuffix(p1, "$")
        atoms == TrimSuffix(p1, "$")
    IN  IF Range(pat) \cap BadTokens # {}
        THEN [ok |-> FALSE, anchS |-> FALSE, anchE |-> FALSE, atoms |-> <<>>]
        ELSE [ok |-> TRUE, anchS |-> anchS, anchE |-> anchE, atoms |-> atoms]

NilRegex == [ok |-> FALSE, anchS |-> FALSE, anchE |-> FALSE, atoms |-> <<>>]
NoMatch == [ok |-> FALSE, caps |-> <<>>]

\* length of the run of characters of class cls in s from position i
RECURSIVE RunLen(_, _, _)
RunLen(cls, s, i) ==
    IF i <= Len(s) /\ s[i] \in cls THEN 1 + RunLen(cls, s, i + 1) ELSE 0

\* the leftmost-first match of atoms k.. of re at position i of s: a group
\* is greedy and gives characters back until the rest matches
RECURSIVE MatchHere(_, _, _, _), TryGroup(_, _, _, _, _)
MatchHere(re, k, s, i) ==
    IF k > Len(re.atoms)
    THEN IF re.anchE /\ i # Len(s) + 1 THEN NoMatch ELSE [ok |-> TRUE, caps |-> <<>>]
    ELSE IF re.atoms[k] \in GroupTokens
         THEN TryGroup(re, k, s, i, RunLen(GroupTable[re.atoms[k]].cls, s, i))
         ELSE IF i <= Len(s) /\ s[i] = re.atoms[k]
              THEN MatchHere(re, k + 1, s, i + 1)
              ELSE NoMatch

TryGroup(re, k, s, i, n) ==
    LET g == GroupTable[re.atoms[k]]
    IN  IF n < (IF g.opt THEN 0 ELSE 1) THEN NoMatch
        ELSE LET rest == MatchHere(re, k + 1, s, i + n)
             IN  IF rest.ok
                 THEN [ok |-> TRUE,
                       caps |-> <<[name |-> g.name, text |-> SubSeq(s, i, i + n - 1)]>> \o rest.caps]
                 ELSE TryGroup(re, k, s, i, n - 1)

\* Regexp.FindStringSubmatch: the leftmost match anywhere in s
RECURSIVE FindFrom(_, _, _)
FindFrom(re, s, i) ==
    IF i > Len(s) + 1 THEN NoMatch
    ELSE LET m == MatchHere(re, 1, s, i)
         IN  IF m.ok THEN m
             ELSE IF re.anchS THEN NoMatch
             ELSE FindFrom(re, s, i + 1)

FindStringSubmatch(re, s) == FindFrom(re, s, 1)
MatchString(re, s) == FindStringSubmatch(re, s).ok

\* ------------------------------------------------- route configuration
\* RouteConfig: Path, Method, Template, TemplateFile, MatchHeaders (a set of
\* [name, value]) and ResponseHeaders (a set of [name, tmpl]).  A template
\* source is an opaque name; "bad" does not parse.

\* RouteConfig.IsRegexPattern
IsRegexPattern(path) == HasPrefix(path, "/") /\ HasSuffix(path, "/") /\ ByteLen(path) > 2

\* RouteConfig.GetRegexPattern
GetRegexPattern(path) ==
    IF IsRegexPattern(path) THEN TrimPrefix(TrimSuffix(path, "/"), "/") ELSE path

\* RouteConfig.GetNormalizedMethod
GetNormalizedMethod(method) == ToUpper(TrimSpace(method))

\* canonicalizeHeaderName
canonicalizeHeaderName(name) == ToLower(TrimSpace(name))

\* isHeaderRegexPattern / extractHeaderRegexPattern
isHeaderRegexPattern(value) == HasPrefix(value, "/") /\ HasSuffix(value, "/") /\ ByteLen(value) > 2
extractHeaderRegexPattern(value) ==
    IF isHeaderRegexPattern(value) THEN TrimPrefix(TrimSuffix(value, "/"), "/") ELSE value

\* Engine.CompileInlineTemplate / CompileFileTemplate: the parse succeeds
\* unless the source is malformed
TemplateParses(src) == src # "bad"

NilRoute ==
    [Pattern |-> <<>>, Method |-> <<>>, IsRegexp |-> FALSE, Regex |-> NilRegex,
     MatchHeaders |-> {}, Tmpl |-> "", ResponseHeaders |-> {}, TemplateSource |-> "",
     id |-> [gen |-> -1, idx |-> 0]]

\* Compiler.compileHeaderMatchers: one HeaderMatcher per configured header
compileHeaderMatchers(rc) ==
    LET bad == {h \in rc.MatchHeaders :
                    isHeaderRegexPattern(h.value)
                    /\ ~RegexpCompile(extractHeaderRegexPattern(h.value)).ok}
        one(h) ==
            IF isHeaderRegexPattern(h.value)
            THEN [name |-> canonicalizeHeaderName(h.name), IsRegex |-> TRUE,
                  Regex |-> RegexpCompile(extractHeaderRegexPattern(h.value)), Literal |-> <<>>]
            ELSE [name |-> canonicalizeHeaderName(h.name), IsRegex |-> FALSE,
                  Regex |-> NilRegex, Literal |-> h.value]
    IN  [ok |-> bad = {}, matchers |-> IF bad = {} THEN {one(h) : h \in rc.MatchHeaders} ELSE {}]

\* Compiler.compileResponseHeaders: every header value is an inline template
compileResponseHeaders(rc) ==
    LET bad == {h \in rc.ResponseHeaders : ~TemplateParses(h.tmpl)}
    IN  [ok |-> bad = {},
         headers |-> IF bad = {}
                     THEN {[name |-> canonicalizeHeaderName(h.name), tmpl |-> h.tmpl] :
                              h \in rc.ResponseHeaders}
                     ELSE {}]

\* Compiler.compileTemplate
compileTemplate(rc) ==
    IF rc.Template # "" THEN [ok |-> TemplateParses(rc.Template), tmpl |-> rc.Template]
    ELSE IF rc.TemplateFile # "" THEN [ok |-> TemplateParses(rc.TemplateFile), tmpl |-> rc.TemplateFile]
    ELSE [ok |-> FALSE, tmpl |-> ""]

\* Compiler.CompileRoute; id stands for the identity of the allocated Route
\* (the compile that made it and its position)
CompileRoute(rc, id) ==
    LET isRe == IsRegexPattern(rc.Path)
        regex == IF isRe THEN RegexpCompile(GetRegexPattern(rc.Path)) ELSE NilRegex
        hm == compileHeaderMatchers(rc)
        rh == compileResponseHeaders(rc)
        tm == compileTemplate(rc)
    IN  IF isRe /\ ~regex.ok THEN [ok |-> FALSE, route |-> NilRoute]
        ELSE IF ~hm.ok THEN [ok |-> FALSE, route |-> NilRoute]
        ELSE IF ~rh.ok THEN [ok |-> FALSE, route |-> NilRoute]
        ELSE IF ~tm.ok THEN [ok |-> FALSE, route |-> NilRoute]
        ELSE [ok |-> TRUE,
              route |-> [Pattern |-> rc.Path, Method |-> GetNormalizedMethod(rc.Method),
                         IsRegexp |-> isRe, Regex |-> regex,
                         MatchHeaders |-> hm.matchers, Tmpl |-> tm.tmpl,
                         ResponseHeaders |-> rh.headers,
                         TemplateSource |-> IF rc.Template # "" THEN "inline" ELSE rc.TemplateFile,
                         id |-> id]]

\* Compiler.CompileRoutes: in order, stopping at the first failure
RECURSIVE CompileFrom(_, _, _, _)
CompileFrom(rcs, i, acc, gen) ==
    IF i > Len(rcs) THEN [ok |-> TRUE, routes |-> acc, failed |-> 0]
    ELSE LET c == CompileRoute(rcs[i], [gen |-> gen, idx |-> i])
         IN  IF ~c.ok THEN [ok |-> FALSE, routes |-> <<>>, failed |-> i]
             ELSE CompileFrom(rcs, i + 1, Append(acc, c.route), gen)

\* variant: literal routes are moved in front of regex routes
CompileRoutesLiteralFirst(rcs, gen) ==
    LET c == CompileFrom(rcs, 1, <<>>, gen)
        lit == SelectSeq(c.routes, LAMBDA x : ~x.IsRegexp)
        re == SelectSeq(c.routes, LAMBDA x : x.IsRegexp)
    IN  [c EXCEPT !.routes = lit \o re]

\* variant: on a failure the routes compiled so far are returned
CompileRoutesPartial(rcs, gen) ==
    LET c == CompileFrom(rcs, 1, <<>>, gen)
    IN  IF c.ok THEN c
        ELSE [c EXCEPT !.routes = [j \in 1..(c.failed - 1) |->
                                      CompileRoute(rcs[j], [gen |-> gen, idx |-> j]).route]]

CompileRoutes(rcs, gen) == CompileFrom(rcs, 1, <<>>, gen)

\* ------------------------------------------------------------- matching
\* A request: Method, Path, Header (a set of [name, values])
NilMatch == [nil |-> TRUE, Route |-> NilRoute, Params |-> {}]

\* Route.matchesVerb
matchesVerb(route, method) == EqualFold(route.Method, method)

\* variant: every group of the regex becomes a parameter
matchRegexPatternAllGroups(route, path) ==
    IF ~route.Regex.ok THEN [match |-> NilMatch, ok |-> FALSE]
    ELSE LET m == FindStringSubmatch(route.Regex, path)
         IN  IF ~m.ok THEN [match |-> NilMatch, ok |-> FALSE]
             ELSE [match |-> [nil |-> FALSE, Route |-> route,
                              Params |-> {[name |-> m.caps[i].name, text |-> m.caps[i].text] :
                                             i \in 1..Len(m.caps)}],
                   ok |-> TRUE]

\* Route.matchRegexPattern: named groups become parameters
matchRegexPattern(route, path) ==
    IF ~route.Regex.ok THEN [match |-> NilMatch, ok |-> FALSE]
    ELSE LET m == FindStringSubmatch(route.Regex, path)
         IN  IF ~m.ok THEN [match |-> NilMatch, ok |-> FALSE]
             ELSE [match |-> [nil |-> FALSE, Route |-> route,
                              Params |-> {[name |-> m.caps[i].name, text |-> m.caps[i].text] :
                                             i \in {j \in 1..Len(m.caps) : m.caps[j].name # ""}}],
                   ok |-> TRUE]

\* Route.matchLiteralPattern
matchLiteralPatternPrefix(route, path) ==
    IF Len(path) >= Len(route.Pattern) /\ SubSeq(path, 1, Len(route.Pattern)) = route.Pattern
    THEN [match |-> [nil |-> FALSE, Route |-> route, Params |-> {}], ok |-> TRUE]
    ELSE [match |-> NilMatch, ok |-> FALSE]

matchLiteralPattern(route, path) ==
    IF path = route.Pattern
    THEN [match |-> [nil |-> FALSE, Route |-> route, Params |-> {}], ok |-> TRUE]
    ELSE [match |-> NilMatch, ok |-> FALSE]

\* getHeaderIgnoreCase: the first value of the header, "" when there is none
getHeaderIgnoreCase(req, name) ==
    LET hits == {h \in req.Header : ToLower(h.name) = ToLower(name) /\ Len(h.values) > 0}
    IN  IF hits = {} THEN <<>> ELSE (CHOOSE h \in hits : TRUE).values[1]

\* Route.matchHeaderValue
matchHeaderValue(value, matcher) ==
    IF matcher.IsRegex THEN MatchString(matcher.Regex, value) ELSE value = matcher.Literal

\* one iteration of the loop of Route.matchesHeaders
headerPasses(req, matcher) ==
    LET headerValue == getHeaderIgnoreCase(req, matcher.name)
    IN  IF headerValue = <<>> THEN FALSE ELSE matchHeaderValue(headerValue, matcher)

\* Route.matchesHeaders
matchesHeaders(route, req) ==
    IF route.MatchHeaders = {} THEN TRUE
    ELSE \A matcher \in route.MatchHeaders : headerPasses(req, matcher)

\* Route.MatchRequest
MatchRequestNoHeaders(route, req) ==
    IF ~matchesVerb(route, req.Method) THEN [match |-> NilMatch, ok |-> FALSE]
    ELSE LET pm == IF route.IsRegexp THEN matchRegexPattern(route, req.Path)
                   ELSE matchLiteralPattern(route, req.Path)
         IN  IF ~pm.ok THEN [match |-> NilMatch, ok |-> FALSE]
             ELSE [match |-> pm.match, ok |-> TRUE]

MatchRequest(route, req) ==
    IF ~matchesVerb(route, req.Method) THEN [match |-> NilMatch, ok |-> FALSE]
    ELSE LET pm == IF route.IsRegexp THEN matchRegexPattern(route, req.Path)
                   ELSE matchLiteralPattern(route, req.Path)
         IN  IF ~pm.ok THEN [match |-> NilMatch, ok |-> FALSE]
             ELSE IF ~matchesHeaders(route, req) THEN [match |-> NilMatch, ok |-> FALSE]
             ELSE [match |-> pm.match, ok |-> TRUE]

\* Server.findMatchingRoute: the first route of the list that matches
RECURSIVE findFrom(_, _, _)
findFrom(routes, req, i) ==
    IF i > Len(routes) THEN NilMatch
    ELSE LET m == MatchRequest(routes[i], req)
         IN  IF m.ok THEN m.match ELSE findFrom(routes, req, i + 1)

RECURSIVE findLastFrom(_, _, _)
findLastFrom(routes, req, i) ==
    IF i < 1 THEN NilMatch
    ELSE LET m == MatchRequest(routes[i], req)
         IN  IF m.ok THEN m.match ELSE findLastFrom(routes, req, i - 1)

findMatchingRouteLast(routes, req) == findLastFrom(routes, req, Len(routes))
findMatchingRoute(routes, req) == findFrom(routes, req, 1)

\* ------------------------------------------------------------ variables
VARIABLES
    mpc,        \* compile-and-match run: "off", "config", "compiled", "failed", "matched"
    mcfg,       \* the route configurations given to CompileRoutes
    mreq,       \* the request given to the matcher
    mroutes,    \* what CompileRoutes returned
    mfound,     \* what findMatchingRoute returned
    mone        \* what MatchRequest returned for each compiled route

mvars == <<mpc, mcfg, mreq, mroutes, mfound, mone>>

\* ------------------------------------------- inputs of the matcher runs
PathChars == {"/", "a", "5"}
Paths == {p \in SeqsUpTo(PathChars, MaxPathLen) : Len(p) >= 1 /\ p[1] = "/"}

RegexPaths ==
    { <<"/", "^", "/", "(?P<id>[0-9]+)", "$", "/">>,
      <<"/", "^", "/", "(?P<n>[^/]+)", "/">>,
      <<"/", "^", "/", "a", "([0-9]+)", "(?P<o>[0-9]+)?", "$", "/">>,
      <<"/", "/", "(?P<id>[0-9]+)", "/">>,
      <<"/", "(", "a", "/">> }

ConfigMethods == { <<"G", "E", "T">>, <<"g", "e", "t">>, <<" ", "P", "o", "s", "t", " ">> }
RequestMethods == { <<"G", "E", "T">>, <<"g", "e", "t">>, <<"P", "O", "S", "T">>, <<"G", "E">> }

ConfigHeaders ==
    { {},
      {[name |-> <<"X">>, value |-> <<"a">>]},
      {[name |-> <<"x">>, value |-> <<"/", "^", "a", "/">>]},
      {[name |-> <<"X">>, value |-> <<"a">>], [name |-> <<" ", "y">>, value |-> <<"/", "b", "$", "/">>]},
      {[name |-> <<"X">>, value |-> <<"a">>], [name |-> <<"x">>, value |-> <<"b">>]} }

RequestHeaders ==
    { {},
      {[name |-> <<"X">>, values |-> << <<"a">> >>]},
      {[name |-> <<"X">>, values |-> << <<"a", "b">>, <<"a">> >>]},
      {[name |-> <<"X">>, values |-> << <<>> >>]},
      {[name |-> <<"X">>, values |-> << <<"a">> >>], [name |-> <<"Y">>, values |-> << <<"b">> >>]} }

RouteConfigs ==
    {[Path |-> p, Method |-> m, Template |-> "T1", TemplateFile |-> "",
      MatchHeaders |-> h, ResponseHeaders |-> {}] :
        p \in Paths \cup RegexPaths, m \in ConfigMethods, h \in ConfigHeaders}

\* overlapping routes, told apart by their templates
PrecedenceConfigs ==
    {[Path |-> p, Method |-> <<"G", "E", "T">>, Template |-> t, TemplateFile |-> "",
      MatchHeaders |-> {}, ResponseHeaders |-> {}] :
        p \in { <<"/", "a">>, <<"/", "^", "/", "(?P<n>[^/]+)", "/">> }, t \in {"T1", "T2"}}

\* specs that compile and specs that do not: a bad path regex, a template
\* that does not parse
FailFastConfigs ==
    {[Path |-> p, Method |-> <<"G", "E", "T">>, Template |-> t, TemplateFile |-> "",
      MatchHeaders |-> {}, ResponseHeaders |-> {}] :
        p \in { <<"/", "a">>, <<"/", "(", "a", "/">> }, t \in {"T1", "bad"}}

FailFastLists ==
    {l \in SeqsUpTo(FailFastConfigs, MaxSpecs) :
        Len(l) >= 2 /\ \E i \in 1..Len(l) : ~CompileRoute(l[i], [gen |-> 0, idx |-> i]).ok}

\* specs with an inline template, a template file, both, or neither
SourceConfigs ==
    {[Path |-> <<"/", "a">>, Method |-> <<"G", "E", "T">>, Template |-> t, TemplateFile |-> f,
      MatchHeaders |-> {}, ResponseHeaders |-> {}] :
        t \in {"", "T1"}, f \in {"", "T2"}}

\* a spec whose header predicate is a pattern that matches the empty string
EmptyValueConfigs ==
    {[Path |-> <<"/", "a">>, Method |-> <<"G", "E", "T">>, Template |-> "T1", TemplateFile |-> "",
      MatchHeaders |-> {[name |-> <<"X">>, value |-> v]}, ResponseHeaders |-> {}] :
        v \in { <<"/", "^", "$", "/">>, <<"/", "^", "(?P<o>[0-9]+)?", "$", "/">> }}

RouteLists ==
    {<<rc>> : rc \in RouteConfigs}
        \cup {l \in SeqsUpTo(PrecedenceConfigs, MaxRoutes) : Len(l) >= 2}
        \cup FailFastLists
        \cup {<<rc>> : rc \in SourceConfigs}
        \cup {<<rc>> : rc \in EmptyValueConfigs}

MatchRequests ==
    {[Method |-> m, Path |-> p, Header |-> h] :
        m \in RequestMethods, p \in Paths, h \in RequestHeaders}

NoRequest == [Method |-> <<>>, Path |-> <<>>, Header |-> {}]
NoCompile == [ok |-> FALSE, routes |-> <<>>, failed |-> 0]

MatchOff ==
    /\ mpc = "off" /\ mcfg = <<>> /\ mreq = NoRequest /\ mroutes = NoCompile
    /\ mfound = NilMatch /\ mone = <<>>

\* =================================================================
\* The server: NewServer, ServeHTTP behind the middleware chain, the body
\* render goroutine, ReloadConfig driven by the config watcher.
\* =================================================================
VARIABLES
    routes,           \* s.routes: the compiled routes being served
    engine,           \* s.engine: the generation of the template engine
    middlewareChain,  \* s.middlewareChain: [gen, timeout]
    httpHandler,      \* s.httpServer.Handler: what net/http calls per request
    mu,               \* s.mu: [readerCount, writerWaiting]
    rpc,              \* ReloadConfig: "watch" (not running) or "lockwait"
    pending,          \* what a ReloadConfig in progress has built off to the side
    generation,       \* number of compiles so far (identity of compiled objects)
    lastReload,       \* how the last ReloadConfig call ended: "none", "error", "ok"
    pc,               \* per request: "idle", "start", "select", "done"
    req,              \* per request: the request
    via,              \* per request: the chain it came in through
    mw,               \* per request: timeout middleware "none", "wait", "ret"
    ctxDone,          \* per request: r.Context() is done
    rmatch,           \* per request: the RouteMatch of findMatchingRoute
    render,           \* per request: the body render goroutine and templateDone
    resp,             \* per request: the response writer
    closed,           \* per request: the outermost handler has returned
    late,             \* per request: a write happened after the handler returned
    logs,             \* per request: statuses passed to logRequest
    panicked          \* a body render has panicked since the server started

svars == <<routes, engine, middlewareChain, httpHandler, mu, rpc, pending, generation,
           lastReload, pc, req, via, mw, ctxDone, rmatch, render, resp, closed,
           late, logs, panicked>>
\* =================================================================
\* The parts of the program around the request path: Start and Shutdown.
\* =================================================================
VARIABLES
    spc,              \* Start: "off", "serving", "shutdown", "stopped"
    cfgShutdown,      \* server.timeouts.shutdown of the configuration, in seconds (0: unset)
    shutdownTimeout,  \* s.shutdownTimeout, in seconds
    shutdownCtx,      \* seconds from the signal to the deadline of shutdownCtx
    inflight,         \* seconds the request in flight at the signal still needs
    waited,           \* seconds httpServer.Shutdown has waited so far
    readTimeout,      \* s.httpServer.ReadTimeout, in seconds
    startErr          \* what Start returned: "none", "nil", "deadline"

hvars == <<spc, cfgShutdown, shutdownTimeout, shutdownCtx, inflight, waited, readTimeout,
          startErr>>

ShutdownOff ==
    /\ spc = "off" /\ cfgShutdown = 0 /\ shutdownTimeout = 0 /\ shutdownCtx = 0
    /\ inflight = 0 /\ waited = 0 /\ readTimeout = 0 /\ startErr = "none"

\* ------------------------------------------- startConfigWatcher (main.go)
VARIABLES
    wpc,        \* the watcher goroutine: "off", "select", "reload", "stopped"
    events,     \* watcher.Events: the fsnotify events not yet received, each a set of Op bits
    werrors,    \* watcher.Errors: number of errors not yet received
    wctxDone,   \* the context of signal.NotifyContext has been cancelled
    reloading,  \* number of srv.ReloadConfig calls in progress
    trigger     \* the event the watcher received last

wvars == <<wpc, events, werrors, wctxDone, reloading, trigger>>

WatcherOff ==
    /\ wpc = "off" /\ events = <<>> /\ werrors = 0 /\ wctxDone = FALSE
    /\ reloading = 0 /\ trigger = {}

\* ------------------------------- the middleware chain (NewChain, CreateChain)
VARIABLES
    cpc,           \* a chain run: "off", "config", "built", "failed", "running", "done"
    enabled,       \* config.Enabled: the configured middleware types, in order
    chainHandler,  \* chain.Then(final): handler names from the outermost inwards
    stops,         \* the middleware types that answer this request themselves
    cpos,          \* position in chainHandler of the handler that runs next
    trace,         \* the handlers invoked so far, in order of invocation
    wrapped        \* w is a *ResponseWriter

nvars == <<cpc, enabled, chainHandler, stops, cpos, trace, wrapped>>

ChainOff ==
    /\ cpc = "off" /\ enabled = <<>> /\ chainHandler = <<>> /\ stops = {}
    /\ cpos = 0 /\ trace = <<>> /\ wrapped = FALSE

\* ------------------------------------------ the basic-auth middleware
VARIABLES
    apc,        \* a basic-auth run: "off", "config", "ready", "failed", "done"
    authCfg,    \* BasicAuthConfig: Username, Password, Paths.Include, Paths.Exclude
    authMw,     \* BasicAuthMiddleware: includeMatcher, excludeMatchers
    authReq,    \* the request: URL.Path and what r.BasicAuth() returns
    authResp    \* the response: status, headers, body, and the calls of next

bvars == <<apc, authCfg, authMw, authReq, authResp>>

NoAuthCfg == [Username |-> <<>>, Password |-> <<>>, Include |-> <<>>, Exclude |-> <<>>]
NoAuthMw == [ok |-> FALSE, includeMatcher |-> <<>>, excludeMatchers |-> <<>>]
NoAuthReq == [Path |-> <<>>, ok |-> FALSE, username |-> <<>>, password |-> <<>>]
NoAuthResp == [status |-> 0, hdrs |-> {}, body |-> <<>>, next |-> 0]

AuthOff ==
    /\ apc = "off" /\ authCfg = NoAuthCfg /\ authMw = NoAuthMw
    /\ authReq = NoAuthReq /\ authResp = NoAuthResp

\* ------------------------------------- renderResponseHeaders on its own
VARIABLES
    rhpc,       \* a header-rendering run: "off", "route", "rendered"
    rhRoute,    \* the matched route: its ResponseHeaders, a set of [name, tmpl]
    rhResp      \* the response writer the headers are set on

rvars == <<rhpc, rhRoute, rhResp>>

NoHeaderRoute == [ResponseHeaders |-> {}]

HeadersOff ==
    /\ rhpc = "off" /\ rhRoute = NoHeaderRoute
    /\ rhResp = [status |-> 0, body |-> <<>>, hdrs |-> {}, sent |-> {}]

\* ------------------------------------ middleware.ResponseWriter on its own
VARIABLES
    rwpc,       \* a run of calls on one wrapper: "off", "on"
    rw,         \* the wrapper: status, size, wroteHeader
    under,      \* the wrapped http.ResponseWriter: status codes it was given, bytes it took
    rwHist      \* the calls made: first status asked for, bytes the wrapped Write returned

tvars == <<rwpc, rw, under, rwHist>>

NoWrapper == [status |-> 0, size |-> 0, wroteHeader |-> FALSE]
NoUnder == [codes |-> <<>>, bytes |-> 0]
NoHist == [first |-> 0, returned |-> 0, calls |-> 0, last |-> "none"]

WriterOff ==
    /\ rwpc = "off" /\ rw = NoWrapper /\ under = NoUnder /\ rwHist = NoHist

\* --------------------------------------- TimeoutMiddleware on its own
VARIABLES
    tmpc,       \* the middleware's handler: "off", "wait" (in its select), "ret"
    tmBuild,    \* which of the two versions of the file is built: 1, 2 (0 = off)
    tmHandler,  \* the goroutine running next.ServeHTTP: "run", "returned", "panicked"
    tmDone,     \* the done channel: "empty", "closed", "nil", "err"
    tmCtx,      \* ctx.Done() is closed
    tmResp,     \* the response writer (wrapped)
    tmVia       \* the branch the select took: "none", "done", "timeout"

uvars == <<tmpc, tmBuild, tmHandler, tmDone, tmCtx, tmResp, tmVia>>

TimeoutOff ==
    /\ tmpc = "off" /\ tmBuild = 0 /\ tmHandler = "run" /\ tmDone = "empty"
    /\ tmCtx = FALSE /\ tmVia = "none"
    /\ tmResp = [status |-> 0, body |-> <<>>, hdrs |-> {}, sent |-> {}]

cvars == <<hvars, wvars, nvars, bvars, rvars, tvars, uvars>>
ComponentsOff == ShutdownOff /\ WatcherOff /\ ChainOff /\ AuthOff /\ HeadersOff /\ WriterOff /\ TimeoutOff

\* what the steps of one part leave alone
exceptShutdown == <<mvars, svars, wvars, nvars, bvars, rvars, tvars, uvars>>
exceptWatcher == <<mvars, svars, hvars, nvars, bvars, rvars, tvars, uvars>>
exceptChain == <<mvars, svars, hvars, wvars, bvars, rvars, tvars, uvars>>
exceptAuth == <<mvars, svars, hvars, wvars, nvars, rvars, tvars, uvars>>
exceptHeaders == <<mvars, svars, hvars, wvars, nvars, bvars, tvars, uvars>>
exceptWriter == <<mvars, svars, hvars, wvars, nvars, bvars, rvars, uvars>>
exceptTimeout == <<mvars, svars, hvars, wvars, nvars, bvars, rvars, tvars>>

vars == <<mvars, svars, cvars>>

\* connections: Reqs are those requests come in on when the whole server is
\* run, Conns those of the runs with two requests at a time
Reqs == 1..NumReqs
Conns == 1..MaxConns

\* ----------------------------------------------------- configurations
GET == <<"G", "E", "T">>
validMethods == {GET, <<"P", "O", "S", "T">>}

ConfigA ==
    [readable |-> TRUE,
     Routes |-> << [Path |-> <<"/", "a">>, Method |-> GET, Template |-> "T1", TemplateFile |-> "",
                    MatchHeaders |-> {},
                    ResponseHeaders |-> {[name |-> <<"X", "-", "T">>, tmpl |-> "H1"]}] >>,
     Middleware |-> <<>>, Timeouts |-> [Shutdown |-> 0, Read |-> 0]]

ConfigB ==
    [readable |-> TRUE,
     Routes |-> << [Path |-> <<"/", "a">>, Method |-> <<"g", "e", "t">>, Template |-> "",
                    TemplateFile |-> "T2", MatchHeaders |-> {}, ResponseHeaders |-> {}] >>,
     Middleware |-> <<"timeout">>, Timeouts |-> [Shutdown |-> 5, Read |-> 7]]

ConfigBadRegex ==
    [readable |-> TRUE,
     Routes |-> << [Path |-> <<"/", "(", "a", "/">>, Method |-> GET, Template |-> "T1",
                    TemplateFile |-> "", MatchHeaders |-> {}, ResponseHeaders |-> {}] >>,
     Middleware |-> <<>>, Timeouts |-> [Shutdown |-> 5, Read |-> 7]]

ConfigBadMiddleware ==
    [readable |-> TRUE, Routes |-> ConfigA.Routes, Middleware |-> <<"timeout", "nope">>,
     Timeouts |-> [Shutdown |-> 5, Read |-> 7]]

ConfigUnreadable ==
    [readable |-> FALSE, Routes |-> <<>>, Middleware |-> <<>>,
     Timeouts |-> [Shutdown |-> 0, Read |-> 0]]

\* what the config file may hold when the watcher fires
ConfigFiles == {ConfigA, ConfigB, ConfigBadRegex, ConfigBadMiddleware, ConfigUnreadable}
StartConfigs == {ConfigA, ConfigB}

\* RouteConfig.validateHTTPMethod
validateHTTPMethod(rc) ==
    /\ TrimSpace(rc.Method) # <<>>
    /\ ToUpper(TrimSpace(rc.Method)) \in validMethods

\* RouteConfig.validateTemplateSource: exactly one of template, template_file
validateTemplateSource(rc) == (rc.Template # "") # (rc.TemplateFile # "")

\* RouteConfig.validateRegexPattern
validateRegexPattern(rc) ==
    IsRegexPattern(rc.Path) => RegexpCompile(TrimPrefix(TrimSuffix(rc.Path, "/"), "/")).ok

\* RouteConfig.validateMatchHeaders
validateMatchHeaders(rc) ==
    \A h \in rc.MatchHeaders :
        /\ TrimSpace(h.name) # <<>>
        /\ isHeaderRegexPattern(h.value) => RegexpCompile(extractHeaderRegexPattern(h.value)).ok

\* RouteConfig.Validate
RouteConfigValidate(rc) ==
    /\ TrimSpace(rc.Path) # <<>>
    /\ validateHTTPMethod(rc)
    /\ validateTemplateSource(rc)
    /\ validateRegexPattern(rc)
    /\ validateMatchHeaders(rc)

\* a template file as it is on disk when it is parsed
OnDisk(rc, filesOK) ==
    IF rc.TemplateFile # "" /\ ~filesOK THEN [rc EXCEPT !.TemplateFile = "bad"] ELSE rc

\* Config.ValidateTemplates: compiles every template once
ValidateTemplates(rcs, filesOK) ==
    \A i \in 1..Len(rcs) :
        /\ compileTemplate(OnDisk(rcs[i], filesOK)).ok
        /\ compileResponseHeaders(rcs[i]).ok

\* config.LoadConfig: read, parse, Validate
LoadConfig(file, filesOK) ==
    /\ file.readable
    /\ Len(file.Routes) > 0
    /\ \A i \in 1..Len(file.Routes) : RouteConfigValidate(file.Routes[i])
    /\ ValidateTemplates(file.Routes, filesOK)

\* the mutant of Then: the constructors are applied first to last, which puts
\* the last one outermost
RECURSIVE ThenForwardFrom(_, _, _)
ThenForwardFrom(constructors, h, i) ==
    IF i > Len(constructors) THEN h
    ELSE ThenForwardFrom(constructors, <<constructors[i]>> \o h, i + 1)

ThenForward(constructors, final) == ThenForwardFrom(constructors, <<final>>, 1)

\* alice.Chain.Then: h = constructors[len-1-i](h) for i = 0..len-1, which puts
\* the first constructor outermost
RECURSIVE ThenFrom(_, _, _)
ThenFrom(constructors, h, i) ==
    IF i > Len(constructors) THEN h
    ELSE ThenFrom(constructors, <<constructors[Len(constructors) - i + 1]>> \o h, i + 1)

Then(constructors, final) == ThenFrom(constructors, <<final>>, 1)

\* NewChain: alice.New(), Append(responseWriterMiddleware), then Append of
\* every middleware's Handler() in the order given
RECURSIVE AppendAll(_, _)
AppendAll(chain, middlewares) ==
    IF middlewares = <<>> THEN chain
    ELSE AppendAll(Append(chain, Head(middlewares)), Tail(middlewares))

NewChain(middlewares) == AppendAll(<<"responseWriter">>, middlewares)

\* Factory.CreateMiddleware / Factory.CreateChain: CreateMiddleware fails on a
\* type it does not know
knownMiddleware == {"cors", "logger", "basicauth", "timeout"}
CreateChain(mws) ==
    [ok |-> Range(mws) \subseteq knownMiddleware, timeout |-> "timeout" \in Range(mws),
     chain |-> IF Range(mws) \subseteq knownMiddleware THEN NewChain(mws) ELSE <<>>]

\* ------------------------------------------------------ response writer
NoResponse == [status |-> 0, body |-> <<>>, hdrs |-> {}, sent |-> {}]

ContentType == <<"C", "T">>
HeaderSet(w, name, value) ==
    [w EXCEPT !.hdrs = {h \in @ : h.name # name} \cup {[name |-> name, value |-> value]}]

\* middleware.ResponseWriter.WriteHeader: only the first status is kept
WriteHeader(w, code) ==
    IF w.status # 0 THEN w ELSE [w EXCEPT !.status = code, !.sent = w.hdrs]

\* middleware.ResponseWriter.Write
Write(w, bytes) ==
    LET w1 == WriteHeader(w, 200) IN [w1 EXCEPT !.body = @ \o bytes]

Msg404(r) == <<"404 Not Found: no route matches ">> \o r.Method \o <<" ">> \o r.Path
Msg500 == <<"500 Internal Server Error">>
Msg500Template ==
    <<"500 Internal Server Error: response template cannot be rendered due to an error in the template">>
Msg408 == <<"408 Request Timeout: terminated">>
Msg408Middleware == <<"408 Request Timeout">>
MsgHealth == <<"{status: healthy}">>
ErrorMessages == {Msg500, Msg500Template, Msg408, Msg408Middleware}

\* handleNotFound, handleServerError, handleTemplateError, the 408 of
\* ServeHTTP, the 408 of the timeout middleware, handleHealthCheck
handleNotFound(w, r) ==
    Write(WriteHeader(HeaderSet(w, ContentType, <<"text/plain">>), 404), Msg404(r))
handleServerError(w) ==
    Write(WriteHeader(HeaderSet(w, ContentType, <<"text/plain">>), 500), Msg500)
handleTemplateError(w) ==
    Write(WriteHeader(HeaderSet(w, ContentType, <<"text/plain">>), 500), Msg500Template)
writeTimeout(w) ==
    Write(WriteHeader(HeaderSet(w, ContentType, <<"text/plain">>), 408), Msg408)
middlewareTimeout(w) ==
    Write(WriteHeader(HeaderSet(w, ContentType, <<"text/plain">>), 408), Msg408Middleware)
handleHealthCheck(w) ==
    Write(WriteHeader(HeaderSet(w, ContentType, <<"application/json">>), 200), MsgHealth)

\* what a template writes when it runs to the end
TemplateOutput(tmpl) ==
    CASE tmpl = "H1" -> <<" ", "v", " ">>
      [] tmpl = "H2" -> <<"w">>
      [] tmpl = "H3" -> <<"v", " ", "w">>
      [] tmpl = "H0" -> <<>>
      [] OTHER -> [i \in 1..MaxChunks |-> tmpl]

\* ContextError.Error() of the error parseRequestBody returns when the body
\* cannot be read: component and message, without the cause
ContextErrorText == <<"template context error in body: failed to read request body">>

\* Engine.BuildTemplateContext / NewTemplateContext for a request of the
\* server (never nil): a body that cannot be read is not an error, the
\* text of the error becomes the Body of the context
BuildTemplateContext(q) ==
    [err |-> FALSE, Body |-> IF q.BodyErr # "" THEN ContextErrorText ELSE <<>>]

\* Engine.ExecuteTemplate running to the end: the inline template T1 prints
\* the Body of its context after its own text
ExecuteTemplate(tmpl, ctx) ==
    TemplateOutput(tmpl) \o (IF tmpl = "T1" THEN ctx.Body ELSE <<>>)

\* Server.renderResponseHeaders, every header template succeeding
renderResponseHeaders(w, route) ==
    LET names == {h.name : h \in route.ResponseHeaders}
        val(n) == TrimSpace(TemplateOutput((CHOOSE h \in route.ResponseHeaders : h.name = n).tmpl))
        RECURSIVE setAll(_, _)
        setAll(ww, ns) ==
            IF ns = {} THEN ww
            ELSE LET n == CHOOSE x \in ns : TRUE
                 IN  setAll(IF val(n) # <<>> THEN HeaderSet(ww, n, val(n)) ELSE ww, ns \ {n})
    IN  setAll(w, names)

\* ------------------------------------------------------------ requests
HealthPath == <<"/", "h">>
\* causes for which reading a request body fails ("" = the body is read)
ReadErrors == {"E1", "E2"}
ServerRequests ==
    {[Method |-> GET, Path |-> p, Header |-> {}, BodyErr |-> ""] :
        p \in {<<"/", "a">>, <<"/", "5">>, HealthPath}}
    \cup {[Method |-> GET, Path |-> <<"/", "a">>, Header |-> {}, BodyErr |-> e] : e \in ReadErrors}

IsHealth(q) == q.Path = HealthPath /\ q.Method = GET

NoRender == [state |-> "none", outcome |-> "", buf |-> <<>>, egen |-> -1, early |-> FALSE]
NoChain == [gen |-> -1, timeout |-> FALSE]
NoPending ==
    [routes |-> <<>>, engine |-> -1, chain |-> NoChain, timeouts |-> [Shutdown |-> 0, Read |-> 0]]

\* TimeoutConfig.GetWithDefaults: config.Shutdown and config.Read
DefaultShutdown == 30
DefaultRead == 15
GetWithDefaults(configured) == IF configured = 0 THEN DefaultShutdown ELSE configured
GetWithDefaultsRead(configured) == IF configured = 0 THEN DefaultRead ELSE configured

\* NewServer: shutdownTimeout: timeouts.Shutdown, ReadTimeout: timeouts.Read;
\* Start has not been asked to stop
ServerTimeouts(c) ==
    /\ spc = "off"
    /\ cfgShutdown = c.Timeouts.Shutdown
    /\ shutdownTimeout = GetWithDefaults(c.Timeouts.Shutdown)
    /\ readTimeout = GetWithDefaultsRead(c.Timeouts.Read)
    /\ shutdownCtx = 0 /\ inflight = 0 /\ waited = 0 /\ startErr = "none"

\* ----------------------------------------------------------- NewServer
Init ==
    /\ MatchOff
    /\ WatcherOff /\ ChainOff /\ AuthOff /\ HeadersOff /\ WriterOff /\ TimeoutOff
    /\ \E c \in StartConfigs :
        /\ ServerTimeouts(c)
        /\ routes = CompileRoutes(c.Routes, 0).routes
        /\ middlewareChain = [gen |-> 0, timeout |-> CreateChain(c.Middleware).timeout]
        /\ httpHandler = [gen |-> 0, timeout |-> CreateChain(c.Middleware).timeout]
    /\ engine = 0
    /\ mu = [readerCount |-> 0, writerWaiting |-> FALSE]
    /\ rpc = "watch"
    /\ pending = NoPending
    /\ generation = 0
    /\ lastReload = "none"
    /\ pc = [r \in Conns |-> "idle"]
    /\ req = [r \in Conns |-> NoRequest]
    /\ via = [r \in Conns |-> NoChain]
    /\ mw = [r \in Conns |-> "none"]
    /\ ctxDone = [r \in Conns |-> FALSE]
    /\ rmatch = [r \in Conns |-> NilMatch]
    /\ render = [r \in Conns |-> NoRender]
    /\ resp = [r \in Conns |-> NoResponse]
    /\ closed = [r \in Conns |-> FALSE]
    /\ late = [r \in Conns |-> FALSE]
    /\ logs = [r \in Conns |-> <<>>]
    /\ panicked = FALSE

\* no server constructed: the matcher is run on its own
ServerOff ==
    /\ routes = <<>> /\ engine = -1 /\ middlewareChain = NoChain /\ httpHandler = NoChain
    /\ mu = [readerCount |-> 0, writerWaiting |-> FALSE]
    /\ rpc = "watch" /\ pending = NoPending /\ generation = 0 /\ lastReload = "none"
    /\ pc = [r \in Conns |-> "idle"]
    /\ req = [r \in Conns |-> NoRequest]
    /\ via = [r \in Conns |-> NoChain]
    /\ mw = [r \in Conns |-> "none"]
    /\ ctxDone = [r \in Conns |-> FALSE]
    /\ rmatch = [r \in Conns |-> NilMatch]
    /\ render = [r \in Conns |-> NoRender]
    /\ resp = [r \in Conns |-> NoResponse]
    /\ closed = [r \in Conns |-> FALSE]
    /\ late = [r \in Conns |-> FALSE]
    /\ logs = [r \in Conns |-> <<>>]
    /\ panicked = FALSE

\* a write by the dispatcher: once the outermost handler has returned the
\* response is finished and what a write does to it is undefined (it may
\* still reach the connection or be lost)
Emit(r, nw) ==
    IF closed[r]
    THEN /\ resp' \in {resp, [resp EXCEPT ![r] = nw]}
         /\ late' = [late EXCEPT ![r] = TRUE]
    ELSE /\ resp' = [resp EXCEPT ![r] = nw]
         /\ UNCHANGED late

\* ServeHTTP returns: logRequest was the last call, the deferred RUnlock (if
\* any) is done by the caller of this operator; without a timeout
\* middleware this ends the outermost handler
Return(r, status) ==
    /\ logs' = [logs EXCEPT ![r] = Append(@, status)]
    /\ pc' = [pc EXCEPT ![r] = "done"]
    /\ closed' = [closed EXCEPT ![r] = @ \/ mw[r] = "none"]

\* net/http accepts a request and calls s.httpServer.Handler; the chain runs
\* down to ServeHTTP, the timeout middleware (if configured) starting the
\* rest of the chain in a goroutine of its own
Arrive(r, q) ==
    /\ pc[r] = "idle"
    /\ \A r2 \in Reqs : r2 < r => pc[r2] # "idle"
    /\ pc' = [pc EXCEPT ![r] = "start"]
    /\ req' = [req EXCEPT ![r] = q]
    /\ via' = [via EXCEPT ![r] = httpHandler]
    /\ mw' = [mw EXCEPT ![r] = IF httpHandler.timeout THEN "wait" ELSE "none"]
    /\ UNCHANGED <<mvars, cvars>>
    /\ UNCHANGED <<panicked, routes, engine, middlewareChain, httpHandler, mu, rpc, pending, generation,
                   lastReload, ctxDone, rmatch, render, resp, closed, late, logs>>

\* ServeHTTP, GET /health: handleHealthCheck (RLock, len(s.routes), RUnlock)
HealthCheck(r) ==
    /\ pc[r] = "start"
    /\ IsHealth(req[r])
    /\ ~mu.writerWaiting
    /\ Emit(r, handleHealthCheck(resp[r]))
    /\ Return(r, 200)
    /\ UNCHANGED <<mvars, cvars>>
    /\ UNCHANGED <<panicked, routes, engine, middlewareChain, httpHandler, mu, rpc, pending, generation,
                   lastReload, req, via, mw, ctxDone, rmatch, render>>

\* ServeHTTP: s.mu.RLock() can be taken
CanDispatch(r) ==
    /\ pc[r] = "start"
    /\ ~IsHealth(req[r])
    /\ ~mu.writerWaiting

\* ServeHTTP: no route matches
DispatchNotFound(r) ==
    /\ CanDispatch(r)
    /\ findMatchingRoute(routes, req[r]).nil
    /\ Emit(r, handleNotFound(resp[r], req[r]))
    /\ Return(r, 404)
    /\ UNCHANGED <<mvars, cvars>>
    /\ UNCHANGED <<panicked, routes, engine, middlewareChain, httpHandler, mu, rpc, pending, generation,
                   lastReload, req, via, mw, ctxDone, rmatch, render>>

\* ServeHTTP: a response header template fails
DispatchHeaderError(r) ==
    /\ CanDispatch(r)
    /\ ~findMatchingRoute(routes, req[r]).nil
    /\ ~BuildTemplateContext(req[r]).err
    /\ findMatchingRoute(routes, req[r]).Route.ResponseHeaders # {}
    /\ rmatch' = [rmatch EXCEPT ![r] = findMatchingRoute(routes, req[r])]
    /\ Emit(r, handleTemplateError(resp[r]))
    /\ Return(r, 500)
    /\ UNCHANGED <<mvars, cvars>>
    /\ UNCHANGED <<panicked, routes, engine, middlewareChain, httpHandler, mu, rpc, pending, generation,
                   lastReload, req, via, mw, ctxDone, render>>

\* ServeHTTP: route matched, context built, response headers rendered, the
\* body render goroutine started; the dispatcher goes to its select holding
\* the read lock
DispatchSpawn(r) ==
    /\ CanDispatch(r)
    /\ ~findMatchingRoute(routes, req[r]).nil
    /\ ~BuildTemplateContext(req[r]).err
    /\ rmatch' = [rmatch EXCEPT ![r] = findMatchingRoute(routes, req[r])]
    /\ Emit(r, renderResponseHeaders(resp[r], findMatchingRoute(routes, req[r]).Route))
    /\ render' = [render EXCEPT ![r] = [NoRender EXCEPT !.state = "running"]]
    /\ mu' = [mu EXCEPT !.readerCount = @ + 1]
    /\ pc' = [pc EXCEPT ![r] = "select"]
    /\ UNCHANGED <<mvars, cvars>>
    /\ UNCHANGED <<panicked, routes, engine, middlewareChain, httpHandler, rpc, pending, generation,
                   lastReload, req, via, mw, ctxDone, closed, logs>>

\* templateDone := make(chan error, 1)
\* variant: make(chan error), a send waits for a receiver
TemplateDoneUnbuffered == Len(<<>>)

TemplateDoneCap == 1

\* len(templateDone): the outcome that was sent and not yet received
lenTemplateDone(r) == IF render[r].state = "sent" THEN 1 ELSE 0

\* the render goroutine: s.engine.ExecuteTemplate(route.Tmpl, &templateBuffer,
\* ctx) reads s.engine (without the lock), writes the buffer, and sends the
\* error, or the recovered panic, on templateDone (capacity 1)
\* variant: the render goroutine has no deferred recover, a panic ends it
\* before anything is sent on templateDone
RenderFinishNoRecover(r, outcome, n) ==
    /\ render[r].state = "running"
    /\ LET out == ExecuteTemplate(rmatch[r].Route.Tmpl, BuildTemplateContext(req[r]))
       IN  render' = [render EXCEPT ![r] =
                [state |-> IF outcome = "panic" THEN "none" ELSE "sent", outcome |-> outcome,
                 buf |-> IF outcome = "ok" THEN out ELSE SubSeq(out, 1, n),
                 egen |-> engine, early |-> ~ctxDone[r]]]
    /\ panicked' = (panicked \/ outcome = "panic")
    /\ UNCHANGED <<mvars, cvars>>
    /\ UNCHANGED <<routes, engine, middlewareChain, httpHandler, mu, rpc, pending, generation,
                   lastReload, pc, req, via, mw, ctxDone, rmatch, resp, closed, late,
                   logs>>

RenderFinish(r, outcome, n) ==
    /\ render[r].state = "running"
    /\ lenTemplateDone(r) < TemplateDoneCap
    /\ LET out == ExecuteTemplate(rmatch[r].Route.Tmpl, BuildTemplateContext(req[r]))
       IN  render' = [render EXCEPT ![r] =
                [state |-> "sent", outcome |-> outcome,
                 buf |-> IF outcome = "ok" THEN out ELSE SubSeq(out, 1, n),
                 egen |-> engine, early |-> ~ctxDone[r]]]
    /\ panicked' = (panicked \/ outcome = "panic")
    /\ UNCHANGED <<mvars, cvars>>
    /\ UNCHANGED <<routes, engine, middlewareChain, httpHandler, mu, rpc, pending, generation,
                   lastReload, pc, req, via, mw, ctxDone, rmatch, resp, closed, late,
                   logs>>

\* select, case err = <-templateDone
SelectDoneGuard(r) == pc[r] = "select" /\ render[r].state = "sent"
\* variant: the templateDone branch returns without the deferred RUnlock
SelectDoneKeepsLock(r) ==
    /\ SelectDoneGuard(r)
    /\ render' = [render EXCEPT ![r].state = "received"]
    /\ IF render[r].outcome = "ok"
       THEN /\ Emit(r, Write(WriteHeader(resp[r], 200), render[r].buf))
            /\ Return(r, 200)
       ELSE /\ Emit(r, handleTemplateError(resp[r]))
            /\ Return(r, 500)
    /\ UNCHANGED <<mvars, cvars>>
    /\ UNCHANGED <<panicked, routes, engine, middlewareChain, httpHandler, mu, rpc, pending, generation,
                   lastReload, req, via, mw, ctxDone, rmatch>>

SelectDone(r) ==
    /\ SelectDoneGuard(r)
    /\ render' = [render EXCEPT ![r].state = "received"]
    /\ IF render[r].outcome = "ok"
       THEN /\ Emit(r, Write(WriteHeader(resp[r], 200), render[r].buf))
            /\ Return(r, 200)
       ELSE /\ Emit(r, handleTemplateError(resp[r]))
            /\ Return(r, 500)
    /\ mu' = [mu EXCEPT !.readerCount = @ - 1]
    /\ UNCHANGED <<mvars, cvars>>
    /\ UNCHANGED <<panicked, routes, engine, middlewareChain, httpHandler, rpc, pending, generation,
                   lastReload, req, via, mw, ctxDone, rmatch>>

\* select, case err = <-templateDone with a nil error, and w.Write returns an
\* error after n chunks of the buffer (the connection is gone): the status
\* line 200 is out, the error is logged, logRequest(r, 500, ...), return
SelectDoneWriteFails(r, n) ==
    /\ SelectDoneGuard(r)
    /\ render[r].outcome = "ok"
    /\ n <= Len(render[r].buf)
    /\ render' = [render EXCEPT ![r].state = "received"]
    /\ Emit(r, Write(WriteHeader(resp[r], 200), SubSeq(render[r].buf, 1, n)))
    /\ Return(r, 500)
    /\ mu' = [mu EXCEPT !.readerCount = @ - 1]
    /\ UNCHANGED <<mvars, cvars>>
    /\ UNCHANGED <<panicked, routes, engine, middlewareChain, httpHandler, rpc, pending, generation,
                   lastReload, req, via, mw, ctxDone, rmatch>>

\* select, case <-r.Context().Done(): 408, logRequest, return
\* variant: the timeout branch is taken only once the render has reported
SelectTimeoutGuardWaits(r) == pc[r] = "select" /\ ctxDone[r] /\ render[r].state = "sent"

SelectTimeoutGuard(r) == pc[r] = "select" /\ ctxDone[r]
SelectTimeout(r) ==
    /\ SelectTimeoutGuard(r)
    /\ Emit(r, writeTimeout(resp[r]))
    /\ Return(r, 408)
    /\ mu' = [mu EXCEPT !.readerCount = @ - 1]
    /\ UNCHANGED <<mvars, cvars>>
    /\ UNCHANGED <<panicked, routes, engine, middlewareChain, httpHandler, rpc, pending, generation,
                   lastReload, req, via, mw, ctxDone, rmatch, render>>

\* the goroutine left behind by the timeout branch: <-templateDone
\* variant: the goroutine writes the buffer of a render that ended well
DrainWritesBuffer(r) ==
    /\ pc[r] = "done"
    /\ render[r].state = "sent"
    /\ render' = [render EXCEPT ![r].state = "received"]
    /\ resp' = [resp EXCEPT ![r] = Write(@, render[r].buf)]
    /\ UNCHANGED <<mvars, cvars>>
    /\ UNCHANGED <<panicked, routes, engine, middlewareChain, httpHandler, mu, rpc, pending,
                   generation, lastReload, pc, req, via, mw, ctxDone, rmatch, closed, late,
                   logs>>

Drain(r) ==
    /\ pc[r] = "done"
    /\ render[r].state = "sent"
    /\ render' = [render EXCEPT ![r].state = "received"]
    /\ UNCHANGED <<mvars, cvars>>
    /\ UNCHANGED <<panicked, routes, engine, middlewareChain, httpHandler, mu, rpc, pending, generation,
                   lastReload, pc, req, via, mw, ctxDone, rmatch, resp, closed, late,
                   logs>>

\* timeout middleware: the context.WithTimeout deadline passes
Deadline(r) ==
    /\ mw[r] = "wait"
    /\ ~ctxDone[r]
    /\ ctxDone' = [ctxDone EXCEPT ![r] = TRUE]
    /\ UNCHANGED <<mvars, cvars>>
    /\ UNCHANGED <<panicked, routes, engine, middlewareChain, httpHandler, mu, rpc, pending, generation,
                   lastReload, pc, req, via, mw, rmatch, render, resp, closed, late,
                   logs>>

\* the client goes away: net/http cancels the request context (which only
\* the select of ServeHTTP and the timeout middleware observe; behind the
\* middleware it acts as the deadline does)
ClientCancel(r) ==
    /\ pc[r] = "select"
    /\ mw[r] = "none"
    /\ ~ctxDone[r]
    /\ ctxDone' = [ctxDone EXCEPT ![r] = TRUE]
    /\ UNCHANGED <<mvars, cvars>>
    /\ UNCHANGED <<panicked, routes, engine, middlewareChain, httpHandler, mu, rpc, pending, generation,
                   lastReload, pc, req, via, mw, rmatch, render, resp, closed, late,
                   logs>>

\* timeout middleware, case <-done: the handler returned; deferred cancel()
MwDone(r) ==
    /\ mw[r] = "wait"
    /\ pc[r] = "done"
    /\ mw' = [mw EXCEPT ![r] = "ret"]
    /\ closed' = [closed EXCEPT ![r] = TRUE]
    /\ ctxDone' = [ctxDone EXCEPT ![r] = TRUE]
    /\ UNCHANGED <<mvars, cvars>>
    /\ UNCHANGED <<panicked, routes, engine, middlewareChain, httpHandler, mu, rpc, pending, generation,
                   lastReload, pc, req, via, rmatch, render, resp, late, logs>>

\* timeout middleware, case <-ctx.Done(): 408 and return
MwTimeout(r) ==
    /\ mw[r] = "wait"
    /\ ctxDone[r]
    /\ resp' = [resp EXCEPT ![r] = middlewareTimeout(@)]
    /\ mw' = [mw EXCEPT ![r] = "ret"]
    /\ closed' = [closed EXCEPT ![r] = TRUE]
    /\ UNCHANGED <<mvars, cvars>>
    /\ UNCHANGED <<panicked, routes, engine, middlewareChain, httpHandler, mu, rpc, pending, generation,
                   lastReload, pc, req, via, ctxDone, rmatch, render, late, logs>>

\* net/http: the response of request r is finished and no goroutine of the
\* request is left; the connection is free for the next request
Recycle(r) ==
    /\ pc[r] = "done"
    /\ closed[r]
    /\ render[r].state \in {"none", "received"}
    /\ pc' = [pc EXCEPT ![r] = "idle"]
    /\ req' = [req EXCEPT ![r] = NoRequest]
    /\ via' = [via EXCEPT ![r] = NoChain]
    /\ mw' = [mw EXCEPT ![r] = "none"]
    /\ ctxDone' = [ctxDone EXCEPT ![r] = FALSE]
    /\ rmatch' = [rmatch EXCEPT ![r] = NilMatch]
    /\ render' = [render EXCEPT ![r] = NoRender]
    /\ resp' = [resp EXCEPT ![r] = NoResponse]
    /\ closed' = [closed EXCEPT ![r] = FALSE]
    /\ late' = [late EXCEPT ![r] = FALSE]
    /\ logs' = [logs EXCEPT ![r] = <<>>]
    /\ UNCHANGED <<mvars, cvars>>
    /\ UNCHANGED <<panicked, routes, engine, middlewareChain, httpHandler, mu, rpc, pending,
                   generation, lastReload>>

\* ---------------------------------------------------------- ReloadConfig
\* the steps of ReloadConfig before the lock: "ok", or the step that failed
ReloadOutcome(c, atValidate, atCompile) ==
    IF ~LoadConfig(c, atValidate) THEN "load"
    ELSE IF ~CompileRoutes([i \in 1..Len(c.Routes) |-> OnDisk(c.Routes[i], atCompile)],
                           generation + 1).ok THEN "compile"
    ELSE IF ~CreateChain(c.Middleware).ok THEN "chain"
    ELSE "ok"

\* variant: the compiled routes are installed before the chain is built
ReloadConfigFailsDirty(c, atValidate, atCompile) ==
    /\ rpc = "watch"
    /\ ReloadOutcome(c, atValidate, atCompile) # "ok"
    /\ lastReload' = "error"
    /\ routes' = IF ReloadOutcome(c, atValidate, atCompile) = "chain"
                 THEN CompileRoutes(c.Routes, generation + 1).routes
                 ELSE routes
    /\ UNCHANGED <<mvars, cvars>>
    /\ UNCHANGED <<panicked, engine, middlewareChain, httpHandler, mu, rpc, pending, generation,
                   pc, req, via, mw, ctxDone, rmatch, render, resp, closed, late, logs>>

\* watcher: a write event, ReloadConfig returns an error, the error is logged
ReloadConfigFails(c, atValidate, atCompile) ==
    /\ rpc = "watch"
    /\ ReloadOutcome(c, atValidate, atCompile) # "ok"
    /\ lastReload' = "error"
    /\ UNCHANGED <<mvars, cvars>>
    /\ UNCHANGED <<panicked, routes, engine, middlewareChain, httpHandler, mu, rpc, pending, generation,
                   pc, req, via, mw, ctxDone, rmatch, render, resp, closed, late, logs>>

\* watcher: a write event, ReloadConfig builds routes, engine and chain and
\* calls s.mu.Lock(): from now on new readers wait
ReloadConfigLock(c, atValidate, atCompile) ==
    /\ rpc = "watch"
    /\ generation < MaxReloads
    /\ ReloadOutcome(c, atValidate, atCompile) = "ok"
    /\ generation' = generation + 1
    /\ pending' = [routes |-> CompileRoutes(c.Routes, generation + 1).routes,
                   engine |-> generation + 1,
                   chain |-> [gen |-> generation + 1,
                              timeout |-> CreateChain(c.Middleware).timeout],
                   timeouts |-> c.Timeouts]
    /\ mu' = [mu EXCEPT !.writerWaiting = TRUE]
    /\ rpc' = "lockwait"
    /\ UNCHANGED <<mvars, cvars>>
    /\ UNCHANGED <<panicked, routes, engine, middlewareChain, httpHandler, lastReload,
                   pc, req, via, mw, ctxDone, rmatch, render, resp, closed, late, logs>>

\* variant: the swap also takes the shutdown and read timeouts of the new
\* configuration
ReloadConfigSwapTimeouts ==
    /\ rpc = "lockwait"
    /\ mu.readerCount = 0
    /\ routes' = pending.routes
    /\ engine' = pending.engine
    /\ middlewareChain' = pending.chain
    /\ httpHandler' = pending.chain
    /\ shutdownTimeout' = GetWithDefaults(pending.timeouts.Shutdown)
    /\ readTimeout' = GetWithDefaultsRead(pending.timeouts.Read)
    /\ mu' = [mu EXCEPT !.writerWaiting = FALSE]
    /\ rpc' = "watch"
    /\ pending' = NoPending
    /\ lastReload' = "ok"
    /\ UNCHANGED <<mvars, wvars, nvars, bvars, rvars, tvars, uvars>>
    /\ UNCHANGED <<spc, cfgShutdown, shutdownCtx, inflight, waited, startErr>>
    /\ UNCHANGED <<panicked, generation, pc, req, via, mw, ctxDone, rmatch, render, resp,
                   closed, late, logs>>

\* ReloadConfig holds the write lock: the four assignments, then Unlock
ReloadConfigSwap ==
    /\ rpc = "lockwait"
    /\ mu.readerCount = 0
    /\ routes' = pending.routes
    /\ engine' = pending.engine
    /\ middlewareChain' = pending.chain
    /\ httpHandler' = pending.chain
    /\ mu' = [mu EXCEPT !.writerWaiting = FALSE]
    /\ rpc' = "watch"
    /\ pending' = NoPending
    /\ lastReload' = "ok"
    /\ UNCHANGED <<mvars, cvars>>
    /\ UNCHANGED <<panicked, generation, pc, req, via, mw, ctxDone, rmatch, render, resp,
                   closed, late, logs>>

\* --------------------------------------------- the compile-and-match runs
InitMatch ==
    /\ mpc = "config"
    /\ mcfg \in RouteLists
    /\ mreq \in MatchRequests
    /\ mroutes = NoCompile
    /\ mfound = NilMatch
    /\ mone = <<>>
    /\ ServerOff
    /\ ComponentsOff

\* route.MatchHeaders is a map keyed by the canonical header name: of the
\* configured headers whose names canonicalize alike, the one that range
\* visits last (map order) is the entry that stays
headerSurvivors(hs) ==
    {S \in SUBSET hs :
        \A h \in hs :
            Cardinality({k \in S : canonicalizeHeaderName(k.name) = canonicalizeHeaderName(h.name)}) = 1}

MapOrders(rcs) ==
    LET choices == [i \in 1..Len(rcs) |-> headerSurvivors(rcs[i].MatchHeaders)]
    IN  {[i \in 1..Len(rcs) |-> [rcs[i] EXCEPT !.MatchHeaders = g[i]]] :
            g \in {f \in [1..Len(rcs) -> UNION Range(choices)] :
                      \A i \in 1..Len(rcs) : f[i] \in choices[i]}}

\* NewServer: compiler.CompileRoutes(cfg.Routes)
MCompile ==
    /\ mpc = "config"
    /\ \E kept \in MapOrders(mcfg) :
          mroutes' = IF CompileRoutes(mcfg, 0).ok THEN CompileRoutes(kept, 0)
                     ELSE CompileRoutes(mcfg, 0)
    /\ mpc' = IF mroutes'.ok THEN "compiled" ELSE "failed"
    /\ UNCHANGED <<mcfg, mreq, mfound, mone>>
    /\ UNCHANGED <<svars, cvars>>

\* ServeHTTP: s.findMatchingRoute(r), and route.MatchRequest(r) of every route
MMatch ==
    /\ mpc = "compiled"
    /\ mfound' = findMatchingRoute(mroutes.routes, mreq)
    /\ mone' = [i \in 1..Len(mroutes.routes) |-> MatchRequest(mroutes.routes[i], mreq)]
    /\ mpc' = "matched"
    /\ UNCHANGED <<mcfg, mreq, mroutes>>
    /\ UNCHANGED <<svars, cvars>>

NextMatch == MCompile \/ MMatch

SpecMatch == InitMatch /\ [][NextMatch]_vars

\* ------------------------------------------------------- specifications
Next ==
    \/ \E r \in Reqs, q \in ServerRequests : Arrive(r, q)
    \/ \E r \in Reqs : HealthCheck(r)
    \/ \E r \in Reqs : DispatchNotFound(r)
    \/ \E r \in Reqs : DispatchHeaderError(r)
    \/ \E r \in Reqs : DispatchSpawn(r)
    \/ \E r \in Reqs, o \in {"ok", "err", "panic"}, n \in 0..MaxChunks : RenderFinish(r, o, n)
    \/ \E r \in Reqs : SelectDone(r)
    \/ \E r \in Reqs, n \in 0..MaxChunks : SelectDoneWriteFails(r, n)
    \/ \E r \in Reqs : SelectTimeout(r)
    \/ \E r \in Reqs : Drain(r)
    \/ \E r \in Reqs : Deadline(r)
    \/ \E r \in Reqs : ClientCancel(r)
    \/ \E r \in Reqs : MwDone(r)
    \/ \E r \in Reqs : MwTimeout(r)
    \/ \E r \in Reqs : Recycle(r)
    \/ \E c \in ConfigFiles, v \in BOOLEAN, k \in BOOLEAN : ReloadConfigFails(c, v, k)
    \/ \E c \in ConfigFiles, v \in BOOLEAN, k \in BOOLEAN : ReloadConfigLock(c, v, k)
    \/ ReloadConfigSwap

Spec == Init /\ [][Next]_vars

\* what the Go scheduler and the timers guarantee: a runnable goroutine
\* runs and an armed timer fires.  Clients, file events and the time a
\* template takes are not under the program's control.
Fairness ==
    /\ WF_vars(ReloadConfigSwap)
    /\ \A r \in Reqs :
        /\ WF_vars(HealthCheck(r) \/ DispatchNotFound(r)
                   \/ DispatchHeaderError(r) \/ DispatchSpawn(r))
        /\ WF_vars(SelectDone(r) \/ (\E n \in 0..MaxChunks : SelectDoneWriteFails(r, n)) \/ SelectTimeout(r))
        /\ WF_vars(MwDone(r) \/ MwTimeout(r))
        /\ WF_vars(Deadline(r))
        /\ WF_vars(Drain(r))

SpecLive == Spec /\ Fairness

\* ------------------------------------------- two requests at a time
\* the server started with ConfigA (no middleware), two connections, GET /a
\* on both, reloads that install ConfigA again or fail
GetA == [Method |-> GET, Path |-> <<"/", "a">>, Header |-> {}, BodyErr |-> ""]

InitConc ==
    /\ MatchOff
    /\ WatcherOff /\ ChainOff /\ AuthOff /\ HeadersOff /\ WriterOff /\ TimeoutOff
    /\ ServerTimeouts(ConfigA)
    /\ routes = CompileRoutes(ConfigA.Routes, 0).routes
    /\ middlewareChain = [gen |-> 0, timeout |-> CreateChain(ConfigA.Middleware).timeout]
    /\ httpHandler = [gen |-> 0, timeout |-> CreateChain(ConfigA.Middleware).timeout]
    /\ engine = 0
    /\ mu = [readerCount |-> 0, writerWaiting |-> FALSE]
    /\ rpc = "watch"
    /\ pending = NoPending
    /\ generation = 0
    /\ lastReload = "none"
    /\ pc = [r \in Conns |-> "idle"]
    /\ req = [r \in Conns |-> NoRequest]
    /\ via = [r \in Conns |-> NoChain]
    /\ mw = [r \in Conns |-> "none"]
    /\ ctxDone = [r \in Conns |-> FALSE]
    /\ rmatch = [r \in Conns |-> NilMatch]
    /\ render = [r \in Conns |-> NoRender]
    /\ resp = [r \in Conns |-> NoResponse]
    /\ closed = [r \in Conns |-> FALSE]
    /\ late = [r \in Conns |-> FALSE]
    /\ logs = [r \in Conns |-> <<>>]
    /\ panicked = FALSE

NextConc ==
    \/ \E r \in Conns : Arrive(r, GetA)
    \/ \E r \in Conns : DispatchHeaderError(r)
    \/ \E r \in Conns : DispatchSpawn(r)
    \/ \E r \in Conns, o \in {"ok", "err", "panic"}, n \in 0..MaxChunks : RenderFinish(r, o, n)
    \/ \E r \in Conns : SelectDone(r)
    \/ \E r \in Conns, n \in 0..MaxChunks : SelectDoneWriteFails(r, n)
    \/ \E r \in Conns : SelectTimeout(r)
    \/ \E r \in Conns : Drain(r)
    \/ \E r \in Conns : ClientCancel(r)
    \/ \E r \in Conns : Recycle(r)
    \/ \E v \in BOOLEAN, k \in BOOLEAN : ReloadConfigFails(ConfigBadRegex, v, k)
    \/ \E v \in BOOLEAN, k \in BOOLEAN : ReloadConfigLock(ConfigA, v, k)
    \/ ReloadConfigSwap

SpecConc == InitConc /\ [][NextConc]_vars

\* ------------------------------------------------ claims on the matcher
MatchingIdx(rs, rq) == {i \in 1..Len(rs) : MatchRequest(rs[i], rq).ok}
MinOf(S) == CHOOSE x \in S : \A y \in S : x <= y

\* C8: findMatchingRoute returns the match of the lowest-index route whose
\* MatchRequest succeeds, and no match iff no route of the list matches; of
\* two declared routes that both match, the first one's template is the one
\* handed to the renderer.
ThmC8_FirstMatchWins ==
    mpc = "matched" =>
        LET idx == MatchingIdx(mroutes.routes, mreq)
        IN  /\ mfound.nil <=> idx = {}
            /\ idx # {} =>
                /\ mfound.Route.id.idx = MinOf(idx)
                /\ mfound.Route.Tmpl = mroutes.routes[MinOf(idx)].Tmpl
                /\ mfound = mone[MinOf(idx)].match

WitC8_TwoRoutesMatch ==
    /\ mpc = "matched"
    /\ Len(mroutes.routes) >= 2
    /\ {1, 2} \subseteq MatchingIdx(mroutes.routes, mreq)
    /\ mroutes.routes[1].Tmpl # mroutes.routes[2].Tmpl
    /\ mfound.Route.Tmpl = mroutes.routes[1].Tmpl

MethodEqualIgnoringCase(route, rq) == ToLower(route.Method) = ToLower(rq.Method)
PathCheckPasses(route, rq) ==
    IF route.IsRegexp THEN FindStringSubmatch(route.Regex, rq.Path).ok
    ELSE rq.Path = route.Pattern
HeaderChecksPass(route, rq) == \A m \in route.MatchHeaders : headerPasses(rq, m)

\* C9: Route.MatchRequest reports a match iff the method check (ignoring
\* case), the path check and every header predicate pass; without a match
\* the returned match is nil, with a match it refers to that same route.
ThmC9_MatchIffAllThree ==
    mpc = "matched" =>
        \A i \in DOMAIN mone :
            LET route == mroutes.routes[i]
            IN  /\ mone[i].ok <=> /\ MethodEqualIgnoringCase(route, mreq)
                                  /\ PathCheckPasses(route, mreq)
                                  /\ HeaderChecksPass(route, mreq)
                /\ ~mone[i].ok => mone[i].match = NilMatch
                /\ mone[i].ok => ~mone[i].match.nil /\ mone[i].match.Route = route

\* the method and the path pass and only a header predicate decides
WitC9_HeaderDecides ==
    /\ mpc = "matched"
    /\ Len(mone) = 1
    /\ ~mone[1].ok
    /\ MethodEqualIgnoringCase(mroutes.routes[1], mreq)
    /\ PathCheckPasses(mroutes.routes[1], mreq)
    /\ mroutes.routes[1].MatchHeaders # {}

RouteGen(r) == rmatch[r].Route.id.gen

\* the render goroutine of request r has evaluated s.engine
Rendered(r) == render[r].state \in {"sent", "received"}

\* C1: every request is processed with a middleware chain, a route list and
\* a template engine of one configuration generation: the chain it came in
\* through, the route it matched and the engine that rendered its body all
\* carry the same generation.
CexC1_OneGeneration ==
    \A r \in Reqs :
        ~rmatch[r].nil =>
            /\ via[r].gen = RouteGen(r)
            /\ Rendered(r) => render[r].egen = RouteGen(r)

\* C2: a ReloadConfig call that fails at any step (load or validation,
\* route compilation, chain construction) does not take the write lock and
\* leaves routes, engine, middlewareChain and the outward handler as they
\* were, so every request is answered as before; the watcher goes on
\* watching.
ThmC2_FailedReloadKeepsServing ==
    [][(\E c \in ConfigFiles, v \in BOOLEAN, k \in BOOLEAN : ReloadConfigFails(c, v, k)) =>
          /\ routes' = routes
          /\ engine' = engine
          /\ middlewareChain' = middlewareChain
          /\ httpHandler' = httpHandler
          /\ mu' = mu
          /\ \A q \in ServerRequests : findMatchingRoute(routes', q) = findMatchingRoute(routes, q)
          /\ rpc' = "watch"]_vars

\* a reload has failed and the route of the start configuration answers 200
WitC2_ServedAfterFailedReload ==
    /\ lastReload = "error"
    /\ generation = 0
    /\ \E r \in Reqs : closed[r] /\ resp[r].status = 200 /\ RouteGen(r) = 0

\* read locks held: one per dispatcher waiting in its select
ReadLocksHeld == Cardinality({r \in Reqs : pc[r] = "select"})

\* every render eventually finishes or its request context is cancelled
RendersEnd ==
    \A r \in Reqs : (render[r].state = "running") ~> (render[r].state # "running" \/ ctxDone[r])

CexC4_WaitIsBounded ==
    \A r \in Reqs : (pc[r] = "select") ~> (pc[r] = "done" \/ render[r].state # "running")

\* C5: when the request context is done while the render is still running
\* the dispatcher writes the 408, logs the request, releases the read lock
\* and returns, and no step of it waits for the render to complete.
ThmC5_TimeoutDoesNotWait ==
    /\ \A r \in Reqs : (pc[r] = "select" /\ ctxDone[r]) ~> (pc[r] = "done")
    /\ [][\A r \in Reqs :
            (pc[r] = "select" /\ render[r].state = "running" /\ pc'[r] = "done") =>
                /\ resp'[r].status = 408
                /\ logs'[r] = Append(logs[r], 408)
                /\ mu'.readerCount = mu.readerCount - 1
                /\ render'[r].state = "running"]_vars

\* the dispatcher has answered 408 and returned, the read lock is free and
\* the render is still running
WitC5_ReturnedWhileRendering ==
    \E r \in Reqs :
        /\ pc[r] = "done"
        /\ logs[r] = <<408>>
        /\ resp[r].status = 408
        /\ render[r].state = "running"
        /\ mu.readerCount = 0

\* the request was answered on a failure path: the render reported an error
\* or a panic, or somebody took a timeout branch
FailurePath(r) ==
    \/ render[r].state = "received" /\ render[r].outcome # "ok"
    \/ 408 \in Range(logs[r])
    \/ Msg408Middleware[1] \in Range(resp[r].body)

\* bytes of a rendered body
BodyBytes == {"T1", "T2"}

\* C6: no byte of a rendered body is in the response before the render has
\* reported success, and a response on a failure path (render error, panic,
\* deadline) is the error status and its fixed message and nothing else.
CexC6_NoPartialBody ==
    \A r \in Reqs :
        /\ Range(resp[r].body) \cap BodyBytes # {} =>
               render[r].state = "received" /\ render[r].outcome = "ok"
        /\ (closed[r] /\ pc[r] = "done" /\ FailurePath(r)) =>
               /\ resp[r].status \in {500, 408}
               /\ resp[r].body \in ErrorMessages

\* C7: a render that reported success before the request context was done
\* gives status 200 with exactly the rendered output as body; a 408 is
\* answered only when the context was done before the render reported.
CexC7_SuccessBeforeDeadline ==
    \A r \in Reqs :
        (closed[r] /\ pc[r] = "done") =>
            /\ (Rendered(r) /\ render[r].early /\ render[r].outcome = "ok") =>
                   resp[r].status = 200 /\ resp[r].body = render[r].buf
            /\ resp[r].status = 408 => ~(Rendered(r) /\ render[r].early)

\* --------------------------------------- claims on the matcher, continued
\* the regex matches the whole of s: from its first to its last character
FullMatch(re, s) == MatchHere([re EXCEPT !.anchE = TRUE], 1, s, 1).ok

\* C11: the path check of a regex route passes only when the compiled regex
\* matches the entire request path; a path that only contains a match of
\* an unanchored pattern does not match the route.
CexC11_RegexFullMatch ==
    mpc = "matched" =>
        \A i \in DOMAIN mone :
            (mroutes.routes[i].IsRegexp /\ mone[i].ok) =>
                FullMatch(mroutes.routes[i].Regex, mreq.Path)

\* a way the regex can match s: a start position and a length for every
\* group, such that the atoms spell s from there on
GroupIdx(re) == {k \in 1..Len(re.atoms) : re.atoms[k] \in GroupTokens}
AtomLen(re, lens, k) == IF k \in GroupIdx(re) THEN lens[k] ELSE 1
RECURSIVE AtomPos(_, _, _, _)
AtomPos(re, lens, st, k) ==
    IF k = 1 THEN st ELSE AtomPos(re, lens, st, k - 1) + AtomLen(re, lens, k - 1)
Spells(re, s, st, lens) ==
    /\ re.anchS => st = 1
    /\ \A k \in 1..Len(re.atoms) :
        LET p == AtomPos(re, lens, st, k)
            n == AtomLen(re, lens, k)
        IN  /\ p + n - 1 <= Len(s)
            /\ IF k \in GroupIdx(re)
               THEN /\ \A j \in p..(p + n - 1) : s[j] \in GroupTable[re.atoms[k]].cls
                    /\ n >= 1 \/ GroupTable[re.atoms[k]].opt
               ELSE s[p] = re.atoms[k]
    /\ re.anchE => AtomPos(re, lens, st, Len(re.atoms) + 1) = Len(s) + 1

\* one entry per named group, holding what the group spans in that match
ParamsOf(re, s, st, lens) ==
    {[name |-> GroupTable[re.atoms[k]].name,
      text |-> SubSeq(s, AtomPos(re, lens, st, k), AtomPos(re, lens, st, k) + lens[k] - 1)] :
        k \in {j \in GroupIdx(re) : GroupTable[re.atoms[j]].name # ""}}

\* C12: on a successful match the parameter map is not nil; it is empty
\* for a literal route; for a regex route it has exactly one entry per
\* named group, holding the text the group captured in a match of the path
\* ("" for an optional group that took no part), and none for unnamed groups.
ThmC12_ParamsAreNamedGroups ==
    mpc = "matched" =>
        \A i \in DOMAIN mone :
            mone[i].ok =>
                LET route == mroutes.routes[i]
                    params == mone[i].match.Params
                IN  /\ ~mone[i].match.nil
                    /\ ~route.IsRegexp => params = {}
                    /\ route.IsRegexp =>
                        /\ \A p \in params : p.name # ""
                        /\ \E st \in 1..(Len(mreq.Path) + 1),
                              lens \in [GroupIdx(route.Regex) -> 0..Len(mreq.Path)] :
                                /\ Spells(route.Regex, mreq.Path, st, lens)
                                /\ params = ParamsOf(route.Regex, mreq.Path, st, lens)

\* a regex with an unnamed and an optional named group matched: the only
\* parameter is the named one, and it is empty
WitC12_OptionalGroupEmpty ==
    /\ mpc = "matched"
    /\ Len(mone) = 1
    /\ mone[1].ok
    /\ Cardinality(GroupIdx(mroutes.routes[1].Regex)) = 2
    /\ mone[1].match.Params = {[name |-> "o", text |-> <<>>]}

\* the configured value is a pattern between slashes
IsPatternValue(v) == Len(v) >= 1 /\ v[1] = "/" /\ v[Len(v)] = "/" /\ ByteLen(v) > 2

\* the request carries the header named by predicate h (letter case and
\* surrounding blanks of the name aside) with a value that satisfies h
PredicateSatisfied(h, rq) ==
    \E rh \in rq.Header :
        /\ ToLower(rh.name) = ToLower(TrimSpace(h.name))
        /\ \E j \in 1..Len(rh.values) :
            IF IsPatternValue(h.value)
            THEN MatchString(RegexpCompile(SubSeq(h.value, 2, Len(h.value) - 1)), rh.values[j])
            ELSE rh.values[j] = h.value

\* C13: a route with header predicates matches only if for every predicate
\* the request carries a header of that name (compared ignoring case) whose
\* value satisfies it: equal to a literal, case-sensitively, or containing
\* a match of a pattern; a request that lacks a required header never matches.
CexC13_EveryPredicateSatisfied ==
    mpc = "matched" =>
        \A i \in DOMAIN mone :
            mone[i].ok => \A h \in mcfg[i].MatchHeaders : PredicateSatisfied(h, mreq)

\* --------------------------------------- claims on the dispatcher, continued
\* the dispatcher took its no-route branch for request r
Unmatched(r) == pc[r] = "done" /\ ~IsHealth(req[r]) /\ logs[r] = <<404>>

\* C14: a request other than GET /health that no route matches is answered
\* with status 404 and the body "404 Not Found: no route matches METHOD
\* PATH", and nothing else is done for it: no route match is kept, no
\* template is run.
CexC14_UnmatchedIs404 ==
    \A r \in Reqs :
        Unmatched(r) =>
            /\ resp[r].status = 404
            /\ resp[r].body = Msg404(req[r])
            /\ rmatch[r] = NilMatch
            /\ render[r] = NoRender

\* C15: a GET /health request is always answered 200 by the built-in health
\* handler, before any rule matching and whatever the routes are, also
\* while a reload is in progress.
CexC15_HealthIs200 ==
    \A r \in Reqs : (IsHealth(req[r]) /\ closed[r]) => resp[r].status = 200

\* the step of ServeHTTP in which request r is matched and the response
\* header templates of its route are run
RendersHeaders(r) ==
    /\ DispatchHeaderError(r) \/ DispatchSpawn(r)
    /\ rmatch'[r].Route.ResponseHeaders # {}

\* C16: for a matched request the response header templates are run before
\* the body render task is started and before any status line or body byte
\* is written; if one of them fails the response is 500, the body render
\* is never started and the request is over.
CexC16_HeadersBeforeAnyWrite ==
    [][\A r \in Reqs :
          RendersHeaders(r) =>
              /\ resp[r].status = 0 /\ resp[r].body = <<>>
              /\ render[r].state = "none"
              /\ pc'[r] = "done" =>
                     /\ resp'[r].status = 500
                     /\ render'[r] = NoRender]_vars

\* C17: a panic in the body render task is recovered in the task and
\* delivered as an error outcome: the dispatcher answers it as it answers a
\* render error, with the 500 template-error response, logs 500 and
\* releases its read lock; and the server goes on serving: provided renders
\* end, every request that is in the server after a panic is answered.
ThmC17_PanicIsAnError ==
    /\ [][\A r \in Reqs :
            (SelectDoneGuard(r) /\ render[r].outcome \in {"err", "panic"} /\ pc'[r] # pc[r]
             /\ render'[r].state = "received") =>
                /\ pc'[r] = "done"
                /\ logs'[r] = Append(logs[r], 500)
                /\ resp'[r] \in {resp[r], handleTemplateError(resp[r])}
                /\ ~closed[r] => (resp'[r].status = 500 /\ resp'[r].body = Msg500Template)
                /\ mu'.readerCount = mu.readerCount - 1]_vars
    /\ RendersEnd => \A r \in Reqs : (panicked /\ pc[r] # "idle") ~> (pc[r] = "done")

\* a render panicked, its request was answered, and a later request on the
\* same connection is served with its rendered body
WitC17_ServedAfterPanic ==
    /\ panicked
    /\ \E r \in Reqs :
        /\ closed[r] /\ pc[r] = "done" /\ logs[r] = <<200>>
        /\ render[r].outcome = "ok"
        /\ resp[r].status = 200 /\ resp[r].body = render[r].buf

\* the body of request r could not be read while its context was built
BodyUnread(r) == pc[r] # "idle" /\ req[r].BodyErr # ""

\* C18: when the render context of a matched request cannot be built (the
\* request body cannot be read) the request is answered with status 500 and
\* nothing more is done for it: no header template and no body template is
\* run.
CexC18_ContextErrorIs500 ==
    \A r \in Reqs :
        (BodyUnread(r) /\ ~rmatch[r].nil) =>
            /\ render[r] = NoRender
            /\ logs[r] = <<500>>
            /\ pc[r] = "done"

\* C19: the text of an internal error (context building, header rendering,
\* body rendering, panic) never appears in a response body.
CexC19_NoErrorTextInBody ==
    \A r \in Reqs : Range(ContextErrorText) \cap Range(resp[r].body) = {}

\* --------------------------------------- claims on the compiler
\* spec i of the list compiles
Compiles(rcs, i) == CompileRoute(rcs[i], [gen |-> 0, idx |-> i]).ok

\* C20: CompileRoutes stops at the first spec that does not compile: it
\* returns no route list, not even a partial one, its error names that spec
\* (position failed, index failed - 1 in the message), and the specs after
\* it are not compiled: whatever follows the failing spec, the result is
\* the same.
ThmC20_FailFast ==
    mpc = "failed" =>
        /\ ~mroutes.ok
        /\ mroutes.routes = <<>>
        /\ mroutes.failed \in 1..Len(mcfg)
        /\ ~Compiles(mcfg, mroutes.failed)
        /\ \A j \in 1..(mroutes.failed - 1) : Compiles(mcfg, j)
        /\ CompileRoutes(SubSeq(mcfg, 1, mroutes.failed), 0) = mroutes
        /\ \A l \in FailFastLists :
              (Len(l) >= mroutes.failed
               /\ SubSeq(l, 1, mroutes.failed) = SubSeq(mcfg, 1, mroutes.failed)) =>
                  CompileRoutes(l, 0) = mroutes

\* the second of three specs is the first that fails, and the third would
\* fail too
WitC20_ErrorInMiddle ==
    /\ mpc = "failed"
    /\ Len(mcfg) = 3
    /\ Compiles(mcfg, 1) /\ ~Compiles(mcfg, 2) /\ ~Compiles(mcfg, 3)
    /\ mroutes.failed = 2
    /\ mroutes.routes = <<>>

\* the path of a spec is written between slashes
SlashWrapped(path) == Len(path) >= 2 /\ path[1] = "/" /\ path[Len(path)] = "/" /\ ByteLen(path) > 2

\* C21: when CompileRoutes succeeds the list has one route per spec and
\* route i is compiled from spec i: its path, its method in upper case
\* without surrounding blanks, its kind (regex or literal) and its template;
\* the order of declaration is kept.
ThmC21_OrderPreserved ==
    mpc \in {"compiled", "matched"} =>
        /\ mroutes.ok
        /\ Len(mroutes.routes) = Len(mcfg)
        /\ \A i \in 1..Len(mcfg) :
            /\ mroutes.routes[i].Pattern = mcfg[i].Path
            /\ mroutes.routes[i].Method = ToUpper(TrimSpace(mcfg[i].Method))
            /\ mroutes.routes[i].IsRegexp = SlashWrapped(mcfg[i].Path)
            /\ mroutes.routes[i].Tmpl \in {mcfg[i].Template, mcfg[i].TemplateFile} \ {""}
            /\ mroutes.routes[i].id.idx = i

\* a regex spec declared before a literal spec stays before it
WitC21_RegexBeforeLiteral ==
    /\ mpc = "compiled"
    /\ Len(mcfg) = 2
    /\ mroutes.routes[1].IsRegexp /\ ~mroutes.routes[2].IsRegexp
    /\ mroutes.routes[1].Tmpl # mroutes.routes[2].Tmpl
    /\ mroutes.routes[1].Pattern = mcfg[1].Path

\* --------------------------------------- claims on the render task
\* request r was answered 408 by its dispatcher, which then left its select
TimedOut(r) == pc[r] = "done" /\ 408 \in Range(logs[r])

\* C22: a body render task sends exactly one outcome on templateDone, on
\* the normal, the error and the panic path alike; the send never waits,
\* also when the dispatcher has timed out and nobody receives; and once the
\* render has ended, the render goroutine and the drain goroutine started
\* on timeout come to their end: the outcome is received.
ThmC22_OneSendNeverBlocks ==
    /\ [](\A r \in Reqs : render[r].state = "running" => lenTemplateDone(r) < TemplateDoneCap)
    /\ [][\A r \in Reqs :
            /\ (render[r].state = "running" /\ render'[r].state # "running") =>
                   /\ render'[r].state = "sent"
                   /\ render'[r].outcome \in {"ok", "err", "panic"}
                   /\ lenTemplateDone(r)' = 1
            /\ (render'[r].state = "sent" /\ render[r].state # "sent") =>
                   render[r].state = "running"
            /\ (render[r].state = "sent" /\ render'[r].state # "sent") =>
                   render'[r].state = "received"]_vars
    /\ \A r \in Reqs : (render[r].state = "sent") ~> (render[r].state # "sent")

\* the dispatcher timed out and returned, the render panicked afterwards,
\* its outcome was sent with nobody waiting and the drain goroutine took it
WitC22_DrainedAfterTimeout ==
    \E r \in Reqs :
        /\ TimedOut(r)
        /\ render[r].state = "received"
        /\ render[r].outcome = "panic"
        /\ ~render[r].early

WaitsBehind(r, r2) ==
    /\ r2 # r
    /\ pc[r] = "start" /\ ~CanDispatch(r)
    /\ rpc = "lockwait" /\ mu.writerWaiting
    /\ pc[r2] = "select" /\ render[r2].state = "running"

\* C24: requests are served during a reload: the write lock is held for the
\* swap only, and a request that arrives while ReloadConfig waits for or
\* holds the write lock is never made to wait for the body render of
\* another request to finish or time out.
CexC24_NoWaitForRender ==
    [][\A r \in Conns :
          (pc[r] = "idle" /\ pc'[r] = "start" /\ rpc = "lockwait") =>
              \A r2 \in Conns : ~WaitsBehind(r, r2)']_vars

\* =================================================================
\* Start and Shutdown: the exit signal, the shutdown deadline, the wait for
\* the request in flight.  Time is counted in whole seconds.
\* =================================================================
Min(a, b) == IF a <= b THEN a ELSE b

\* Start: context.WithTimeout(context.Background(), 10*time.Second)
StartShutdownLimit == 10

\* context.Background() has no deadline; context.WithTimeout(parent, d) ends at
\* the earlier of the parent's deadline and d from now
Background == [hasDeadline |-> FALSE, at |-> 0]
WithTimeout(parent, d) ==
    [hasDeadline |-> TRUE, at |-> IF parent.hasDeadline THEN Min(parent.at, d) ELSE d]

StartCtx == WithTimeout(Background, StartShutdownLimit)

Durations == 0..MaxSeconds
InFlightNeeds == {0, 3, 12, 33}

\* NewServer (shutdownTimeout: timeouts.Shutdown) and Start up to its select
InitShutdown ==
    /\ MatchOff
    /\ ServerOff
    /\ WatcherOff
    /\ ChainOff
    /\ HeadersOff
    /\ WriterOff
    /\ TimeoutOff
    /\ AuthOff
    /\ spc = "serving"
    /\ cfgShutdown \in Durations
    /\ shutdownTimeout = GetWithDefaults(cfgShutdown)
    /\ readTimeout = GetWithDefaultsRead(0)
    /\ inflight \in InFlightNeeds
    /\ shutdownCtx = 0
    /\ waited = 0
    /\ startErr = "none"

\* Start: case <-ctx.Done(), and Shutdown up to httpServer.Shutdown(shutdownCtx)
StartSignal ==
    /\ spc = "serving"
    /\ spc' = "shutdown"
    /\ shutdownCtx' = WithTimeout(StartCtx, shutdownTimeout).at
    /\ UNCHANGED <<cfgShutdown, shutdownTimeout, inflight, waited, readTimeout, startErr>>
    /\ UNCHANGED exceptShutdown

\* httpServer.Shutdown: a connection is still active, the deadline not reached
ShutdownWait ==
    /\ spc = "shutdown"
    /\ waited < inflight
    /\ waited < shutdownCtx
    /\ waited' = waited + 1
    /\ UNCHANGED <<spc, cfgShutdown, shutdownTimeout, shutdownCtx, inflight, readTimeout, startErr>>
    /\ UNCHANGED exceptShutdown

\* httpServer.Shutdown: every connection is idle; Start returns nil
ShutdownIdle ==
    /\ spc = "shutdown"
    /\ waited >= inflight
    /\ spc' = "stopped"
    /\ startErr' = "nil"
    /\ UNCHANGED <<cfgShutdown, shutdownTimeout, shutdownCtx, inflight, waited, readTimeout>>
    /\ UNCHANGED exceptShutdown

\* httpServer.Shutdown: case <-ctx.Done(); Start returns the context's error
ShutdownExpired ==
    /\ spc = "shutdown"
    /\ waited >= shutdownCtx
    /\ spc' = "stopped"
    /\ startErr' = "deadline"
    /\ UNCHANGED <<cfgShutdown, shutdownTimeout, shutdownCtx, inflight, waited, readTimeout>>
    /\ UNCHANGED exceptShutdown

NextShutdown == StartSignal \/ ShutdownWait \/ ShutdownIdle \/ ShutdownExpired

SpecShutdown == InitShutdown /\ [][NextShutdown]_vars

\* -----------------------------------------------------------------
\* C25: on the exit signal Start waits for the requests in flight for at
\* most the configured server.timeouts.shutdown (30 s when unset), and the
\* deadline of the shutdown is that configured value, whatever it is,
\* values above 10 s included.
ConfiguredShutdown == IF cfgShutdown = 0 THEN 30 ELSE cfgShutdown

CexC25_DeadlineIsConfigured ==
    spc \in {"shutdown", "stopped"} =>
        /\ waited <= ConfiguredShutdown
        /\ shutdownCtx = ConfiguredShutdown

\* =================================================================
\* startConfigWatcher: the goroutine that selects over ctx.Done(),
\* watcher.Events and watcher.Errors and calls srv.ReloadConfig.
\* =================================================================
\* fsnotify.Op is a bit mask; an event carries one or more of these bits
Ops == {"Create", "Write", "Remove", "Rename", "Chmod"}
FsEvents == {{"Create"}, {"Write"}, {"Remove"}, {"Rename"}, {"Chmod"}, {"Write", "Chmod"}}

\* event.Op&fsnotify.Write == fsnotify.Write
IsWrite(op) == "Write" \in op

\* main: startConfigWatcher has returned nil, the goroutine is at its select
InitWatcher ==
    /\ MatchOff
    /\ ServerOff
    /\ ShutdownOff
    /\ ChainOff
    /\ HeadersOff
    /\ WriterOff
    /\ TimeoutOff
    /\ AuthOff
    /\ wpc = "select"
    /\ events = <<>>
    /\ werrors = 0
    /\ wctxDone = FALSE
    /\ reloading = 0
    /\ trigger = {}

\* fsnotify puts an event about the config file on watcher.Events
FsNotify(op) ==
    /\ wpc # "stopped"
    /\ Len(events) < MaxEvents
    /\ events' = Append(events, op)
    /\ UNCHANGED <<wpc, werrors, wctxDone, reloading, trigger>>
    /\ UNCHANGED exceptWatcher

\* fsnotify puts an error on watcher.Errors
FsError ==
    /\ wpc # "stopped"
    /\ werrors < 1
    /\ werrors' = werrors + 1
    /\ UNCHANGED <<wpc, events, wctxDone, reloading, trigger>>
    /\ UNCHANGED exceptWatcher

\* os.Interrupt or SIGTERM: the NotifyContext is cancelled
Signal ==
    /\ ~wctxDone
    /\ wctxDone' = TRUE
    /\ UNCHANGED <<wpc, events, werrors, reloading, trigger>>
    /\ UNCHANGED exceptWatcher

\* select: case <-ctx.Done(); the deferred watcher.Close()
WatcherStop ==
    /\ wpc = "select"
    /\ wctxDone
    /\ wpc' = "stopped"
    /\ events' = <<>>
    /\ werrors' = 0
    /\ UNCHANGED <<wctxDone, reloading, trigger>>
    /\ UNCHANGED exceptWatcher

\* select: case event, ok := <-watcher.Events.  A select with several ready
\* cases takes any of them, so this case can be taken while ctx.Done() is
\* ready too.  A write event enters srv.ReloadConfig().
WatcherEvent ==
    /\ wpc = "select"
    /\ events # <<>>
    /\ trigger' = Head(events)
    /\ events' = Tail(events)
    /\ IF IsWrite(Head(events))
       THEN wpc' = "reload" /\ reloading' = reloading + 1
       ELSE UNCHANGED <<wpc, reloading>>
    /\ UNCHANGED <<werrors, wctxDone>>
    /\ UNCHANGED exceptWatcher

\* srv.ReloadConfig() returns (its error is only logged); back to the select
WatcherReloadReturn ==
    /\ wpc = "reload"
    /\ wpc' = "select"
    /\ reloading' = reloading - 1
    /\ UNCHANGED <<events, werrors, wctxDone, trigger>>
    /\ UNCHANGED exceptWatcher

\* select: case err, ok := <-watcher.Errors; the error is logged
WatcherError ==
    /\ wpc = "select"
    /\ werrors > 0
    /\ werrors' = werrors - 1
    /\ UNCHANGED <<wpc, events, wctxDone, reloading, trigger>>
    /\ UNCHANGED exceptWatcher

NextWatcher ==
    \/ \E op \in FsEvents : FsNotify(op)
    \/ FsError
    \/ Signal
    \/ WatcherStop
    \/ WatcherEvent
    \/ WatcherReloadReturn
    \/ WatcherError

SpecWatcher == InitWatcher /\ [][NextWatcher]_vars

\* -----------------------------------------------------------------
\* C26: ReloadConfig is called only for a watcher event whose operation
\* includes Write (never for create, remove, rename or chmod alone), at most
\* one call is in progress at any time, and once the shutdown context is
\* cancelled the watcher starts no further reload.
ReloadStarts == reloading' > reloading

CexC26_ReloadOnlyOnWriteBeforeCancel ==
    /\ [](reloading <= 1)
    /\ [][ReloadStarts => (events # <<>> /\ "Write" \in Head(events))]_vars
    /\ [][ReloadStarts => ~wctxDone]_vars

\* =================================================================
\* The middleware chain: Factory.CreateChain, NewChain, chain.Then and one
\* request going through the handler it gives.
\* =================================================================
MiddlewareTypes == knownMiddleware \cup {"bogus"}

\* cors answers a preflight request itself, basicauth a request it rejects;
\* logger and timeout always call next
CanStop == {"cors", "basicauth"}

InitChain ==
    /\ MatchOff
    /\ ServerOff
    /\ ShutdownOff
    /\ WatcherOff
    /\ HeadersOff
    /\ WriterOff
    /\ TimeoutOff
    /\ AuthOff
    /\ cpc = "config"
    /\ enabled \in SeqsUpTo(MiddlewareTypes, MaxMiddlewares)
    /\ stops \in SUBSET CanStop
    /\ chainHandler = <<>>
    /\ cpos = 0
    /\ trace = <<>>
    /\ wrapped = FALSE

\* NewServer: middlewareFactory.CreateChain(cfg.Middleware), chain.Then(server)
ChainBuild ==
    /\ cpc = "config"
    /\ LET c == CreateChain(enabled)
       IN  IF c.ok
           THEN cpc' = "built" /\ chainHandler' = Then(c.chain, "final")
           ELSE cpc' = "failed" /\ UNCHANGED chainHandler
    /\ UNCHANGED <<enabled, stops, cpos, trace, wrapped>>
    /\ UNCHANGED exceptChain

\* net/http calls the handler with a request
ChainServe ==
    /\ cpc = "built"
    /\ cpc' = "running"
    /\ cpos' = 1
    /\ UNCHANGED <<enabled, chainHandler, stops, trace, wrapped>>
    /\ UNCHANGED exceptChain

\* responseWriterMiddleware: wraps w unless it is wrapped, calls next
ChainWrapper ==
    /\ cpc = "running"
    /\ chainHandler[cpos] = "responseWriter"
    /\ trace' = Append(trace, "responseWriter")
    /\ wrapped' = TRUE
    /\ cpos' = cpos + 1
    /\ UNCHANGED <<cpc, enabled, chainHandler, stops>>
    /\ UNCHANGED exceptChain

\* a configured middleware: it answers the request itself or calls next
ChainMiddleware ==
    /\ cpc = "running"
    /\ chainHandler[cpos] \in knownMiddleware
    /\ trace' = Append(trace, chainHandler[cpos])
    /\ IF chainHandler[cpos] \in stops
       THEN cpc' = "done" /\ UNCHANGED cpos
       ELSE cpos' = cpos + 1 /\ UNCHANGED cpc
    /\ UNCHANGED <<enabled, chainHandler, stops, wrapped>>
    /\ UNCHANGED exceptChain

\* the final handler: Server.ServeHTTP
ChainFinal ==
    /\ cpc = "running"
    /\ chainHandler[cpos] = "final"
    /\ trace' = Append(trace, "final")
    /\ cpc' = "done"
    /\ UNCHANGED <<enabled, chainHandler, stops, cpos, wrapped>>
    /\ UNCHANGED exceptChain

NextChain == ChainBuild \/ ChainServe \/ ChainWrapper \/ ChainMiddleware \/ ChainFinal

SpecChain == InitChain /\ [][NextChain]_vars

\* -----------------------------------------------------------------
\* C27: a request through a chain built by CreateChain/NewChain goes
\* through the response-writer wrapper first and then through the configured
\* middlewares in the order of the configuration; when none of them answers
\* the request itself, the final handler is invoked exactly once, after all
\* of them; with no middleware configured the final handler follows the
\* wrapper at once.
FinalCalls == Cardinality({i \in 1..Len(trace) : trace[i] = "final"})
ListedOrder == <<"responseWriter">> \o enabled \o <<"final">>

ThmC27_ChainOrder ==
    cpc = "done" =>
        /\ Len(trace) <= Len(ListedOrder)
        /\ trace = SubSeq(ListedOrder, 1, Len(trace))
        /\ wrapped
        /\ FinalCalls <= 1
        /\ (\A i \in 1..Len(enabled) : enabled[i] \notin stops) =>
              (trace = ListedOrder /\ FinalCalls = 1)
        /\ enabled = <<>> => trace = <<"responseWriter", "final">>

WitC27_ThreeInOrder ==
    /\ cpc = "done"
    /\ enabled = <<"logger", "basicauth", "timeout">>
    /\ stops = {"cors"}
    /\ trace = <<"responseWriter", "logger", "basicauth", "timeout", "final">>

\* =================================================================
\* The basic-auth middleware: NewBasicAuthMiddleware and its Handler.
\* =================================================================
\* isRegexPath / extractRegexPath
isRegexPath(path) == HasPrefix(path, "/") /\ HasSuffix(path, "/") /\ ByteLen(path) > 2
extractRegexPath(path) ==
    IF isRegexPath(path) THEN TrimPrefix(TrimSuffix(path, "/"), "/") ELSE path

\* compilePathMatchers: one PathMatcher per pattern, in order; the first
\* regular expression that does not compile is the error
compilePathMatcher(path) ==
    IF isRegexPath(path)
    THEN [IsRegex |-> TRUE, Regex |-> RegexpCompile(extractRegexPath(path)), Literal |-> <<>>]
    ELSE [IsRegex |-> FALSE, Regex |-> NilRegex, Literal |-> path]

compilePathMatchers(paths) ==
    LET ms == [i \in 1..Len(paths) |-> compilePathMatcher(paths[i])]
    IN  IF \E i \in 1..Len(paths) : ms[i].IsRegex /\ ~ms[i].Regex.ok
        THEN [ok |-> FALSE, matchers |-> <<>>]
        ELSE [ok |-> TRUE, matchers |-> ms]

\* NewBasicAuthMiddleware
NewBasicAuthMiddleware(config) ==
    LET inc == compilePathMatchers(config.Include)
        exc == compilePathMatchers(config.Exclude)
    IN  IF inc.ok /\ exc.ok
        THEN [ok |-> TRUE, includeMatcher |-> inc.matchers, excludeMatchers |-> exc.matchers]
        ELSE NoAuthMw

\* BasicAuthMiddleware.matchesPath / matchesAny
matchesPath(path, matcher) ==
    IF matcher.IsRegex THEN matcher.Regex.ok /\ MatchString(matcher.Regex, path)
    ELSE path = matcher.Literal

matchesAny(path, matchers) == \E i \in 1..Len(matchers) : matchesPath(path, matchers[i])

\* the mutant of shouldAuthenticate: a path that matches an include pattern
\* is authenticated without a look at the excludes
shouldAuthenticateIncludeWins(b, path) ==
    IF Len(b.includeMatcher) = 0 THEN ~matchesAny(path, b.excludeMatchers)
    ELSE matchesAny(path, b.includeMatcher)

\* BasicAuthMiddleware.shouldAuthenticate
shouldAuthenticate(b, path) ==
    IF Len(b.includeMatcher) = 0 THEN ~matchesAny(path, b.excludeMatchers)
    ELSE IF ~matchesAny(path, b.includeMatcher) THEN FALSE
    ELSE ~matchesAny(path, b.excludeMatchers)

\* BasicAuthMiddleware.validateCredentials
validateCredentials(config, username, password) ==
    username = config.Username /\ password = config.Password

\* BasicAuthMiddleware.unauthorized
Unauthorized401 == <<"4", "0", "1", " ", "U">>
unauthorized(w) ==
    [w EXCEPT !.hdrs = @ \cup {"WWW-Authenticate"}, !.status = 401, !.body = Unauthorized401]

AuthPatterns ==
    { <<"/", "a">>, <<"/", "5">>,
      <<"/", "^", "/", "a", "/">>,
      <<"/", "5", "/">>,
      <<"/", "(", "a", "/">> }

AuthConfigs ==
    [Username : {<<"u">>}, Password : {<<"p">>},
     Include : SeqsUpTo(AuthPatterns, MaxPatterns),
     Exclude : SeqsUpTo(AuthPatterns, MaxPatterns)]

\* r.URL.Path and r.BasicAuth(): no Authorization header, or the pair it holds
AuthRequests ==
    {[Path |-> p, ok |-> FALSE, username |-> <<>>, password |-> <<>>] : p \in Paths}
    \cup [Path : Paths, ok : {TRUE}, username : {<<"u">>, <<"x">>}, password : {<<"p">>, <<"y">>}]

InitAuth ==
    /\ MatchOff
    /\ ServerOff
    /\ ShutdownOff
    /\ WatcherOff
    /\ HeadersOff
    /\ WriterOff
    /\ TimeoutOff
    /\ ChainOff
    /\ apc = "config"
    /\ authCfg \in AuthConfigs
    /\ authReq \in AuthRequests
    /\ authMw = NoAuthMw
    /\ authResp = NoAuthResp

\* Factory.createBasicAuthMiddleware: NewBasicAuthMiddleware(config)
AuthBuild ==
    /\ apc = "config"
    /\ authMw' = NewBasicAuthMiddleware(authCfg)
    /\ apc' = IF authMw'.ok THEN "ready" ELSE "failed"
    /\ UNCHANGED <<authCfg, authReq, authResp>>
    /\ UNCHANGED exceptAuth

\* BasicAuthMiddleware.Handler: the handler function, for one request
AuthHandle ==
    /\ apc = "ready"
    /\ apc' = "done"
    /\ authResp' =
          IF ~shouldAuthenticate(authMw, authReq.Path)
          THEN [authResp EXCEPT !.next = @ + 1]
          ELSE IF ~authReq.ok THEN unauthorized(authResp)
          ELSE IF ~validateCredentials(authCfg, authReq.username, authReq.password)
               THEN unauthorized(authResp)
          ELSE [authResp EXCEPT !.next = @ + 1]
    /\ UNCHANGED <<authCfg, authMw, authReq>>
    /\ UNCHANGED exceptAuth

NextAuth == AuthBuild \/ AuthHandle

SpecAuth == InitAuth /\ [][NextAuth]_vars

\* -----------------------------------------------------------------
\* C28: authentication is required for a path iff (no include pattern is
\* configured or the path matches one) and the path matches no exclude
\* pattern; the middleware calls next iff authentication is not required or
\* the request carries exactly the configured username and password, and
\* otherwise it answers 401 with a WWW-Authenticate header and does not
\* call next.
MatchesPattern(path, pattern) ==
    IF isRegexPath(pattern)
    THEN MatchString(RegexpCompile(extractRegexPath(pattern)), path)
    ELSE path = pattern

AuthRequired ==
    /\ \/ authCfg.Include = <<>>
       \/ \E i \in 1..Len(authCfg.Include) : MatchesPattern(authReq.Path, authCfg.Include[i])
    /\ \A i \in 1..Len(authCfg.Exclude) : ~MatchesPattern(authReq.Path, authCfg.Exclude[i])

CarriesCredentials ==
    authReq.ok /\ authReq.username = authCfg.Username /\ authReq.password = authCfg.Password

ThmC28_BasicAuthDecision ==
    apc = "done" =>
        /\ shouldAuthenticate(authMw, authReq.Path) <=> AuthRequired
        /\ authResp.next = 1 <=> (~AuthRequired \/ CarriesCredentials)
        /\ authResp.next = 1 => authResp.status = 0
        /\ authResp.next # 1 =>
              /\ authResp.next = 0
              /\ authResp.status = 401
              /\ "WWW-Authenticate" \in authResp.hdrs

WitC28_ExcludeWins ==
    /\ apc = "done"
    /\ authCfg.Include = << <<"/", "^", "/", "a", "/">> >>
    /\ authCfg.Exclude = << <<"/", "a">> >>
    /\ authReq.Path = <<"/", "a">>
    /\ ~authReq.ok
    /\ authResp.next = 1

\* -----------------------------------------------------------------
\* C29: behind the timeout middleware, a handler that finishes before the
\* deadline has its own status and body delivered and no 408 is written; when
\* the deadline expires first the client receives 408 and the middleware
\* returns without waiting for the handler.
DeadlineFirst(r) ==
    mw[r] = "wait" /\ ctxDone[r] /\ pc[r] \in {"start", "select"} /\ resp[r].status = 0

HandlerFirst(r) == mw[r] = "wait" /\ pc[r] = "done" /\ ~ctxDone[r]

CexC29_TimeoutOrOwnResponse ==
    /\ [](\A r \in Reqs : HandlerFirst(r) =>
              /\ resp[r].status \in {200, 404, 500}
              /\ Range(resp[r].body) \cap {Msg408[1], Msg408Middleware[1]} = {})
    /\ [][\A r \in Reqs : (HandlerFirst(r) /\ mw'[r] = "ret") => resp'[r] = resp[r]]_vars
    /\ [][\A r \in Reqs : (DeadlineFirst(r) /\ mw'[r] = "ret") => pc'[r] = pc[r]]_vars
    /\ [][\A r \in Reqs : DeadlineFirst(r) => resp'[r].status \in {0, 408}]_vars

\* =================================================================
\* renderResponseHeaders on its own: the response-header templates of a
\* matched route, rendered and sent.
\* =================================================================
HeaderNames == {<<"X", "-", "T">>, <<"X", "-", "U">>, <<"X", "-", "V">>}
HeaderTemplates == {"H0", "H1", "H2", "H3"}

\* route.response_headers of the configuration: a map from name to template
HeaderConfigs ==
    {hs \in SUBSET [name : HeaderNames, tmpl : HeaderTemplates] :
        \A h1, h2 \in hs : h1.name = h2.name => h1 = h2}

InitHeaders ==
    /\ MatchOff
    /\ ServerOff
    /\ ShutdownOff
    /\ WatcherOff
    /\ ChainOff
    /\ AuthOff
    /\ WriterOff
    /\ TimeoutOff
    /\ rhpc = "route"
    /\ rhRoute \in {[ResponseHeaders |-> hs] : hs \in HeaderConfigs}
    /\ rhResp = NoResponse

\* ServeHTTP: s.renderResponseHeaders(w, route, ctx) on the compiled route
RenderHeaders ==
    /\ rhpc = "route"
    /\ rhpc' = "rendered"
    /\ rhResp' = renderResponseHeaders(rhResp,
                     [ResponseHeaders |-> compileResponseHeaders(rhRoute).headers])
    /\ UNCHANGED rhRoute
    /\ UNCHANGED exceptHeaders

\* ServeHTTP: w.WriteHeader(http.StatusOK) sends the header map
SendHeaders ==
    /\ rhpc = "rendered"
    /\ rhpc' = "sent"
    /\ rhResp' = WriteHeader(rhResp, 200)
    /\ UNCHANGED rhRoute
    /\ UNCHANGED exceptHeaders

NextHeaders == RenderHeaders \/ SendHeaders

SpecHeaders == InitHeaders /\ [][NextHeaders]_vars

\* -----------------------------------------------------------------
\* C30: for every response-header template of the matched route, the value
\* sent on the response is exactly what evaluating the template directly
\* gives, and every configured response header is set on the response.
SentValues(name) ==
    {h.value : h \in {x \in rhResp.sent : EqualFold(x.name, name)}}

CexC30_HeaderIsDirectEvaluation ==
    rhpc = "sent" =>
        \A h \in rhRoute.ResponseHeaders : SentValues(h.name) = {TemplateOutput(h.tmpl)}

\* -----------------------------------------------------------------
\* C31: a route spec that does not set exactly one render source (both
\* template and template_file, or neither) makes CompileRoute, and with it
\* CompileRoutes, fail with an error and produce no route.
ExactlyOneSource(rc) == (rc.Template # "") # (rc.TemplateFile # "")

CexC31_OneRenderSource ==
    mpc \in {"compiled", "failed", "matched"} =>
        \A i \in 1..Len(mcfg) :
            ~ExactlyOneSource(mcfg[i]) =>
                /\ ~CompileRoute(mcfg[i], [gen |-> 0, idx |-> i]).ok
                /\ ~mroutes.ok

\* -----------------------------------------------------------------
\* C32: a successful ReloadConfig replaces routes, engine, middlewareChain
\* and httpServer.Handler together, in the one step it holds the write lock
\* for, and changes nothing else: the shutdown timeout and the http.Server
\* timeouts keep the values NewServer gave them, whatever the new
\* configuration says, and no request's state is touched.
SwapStep == rpc = "lockwait" /\ rpc' = "watch"

ThmC32_SwapFrame ==
    /\ [][SwapStep =>
            /\ mu.writerWaiting /\ mu.readerCount = 0
            /\ routes' = pending.routes
            /\ engine' = pending.engine
            /\ middlewareChain' = pending.chain
            /\ httpHandler' = pending.chain
            /\ UNCHANGED <<shutdownTimeout, readTimeout, cfgShutdown, spc>>
            /\ UNCHANGED <<pc, req, via, mw, ctxDone, rmatch, render, resp, closed, late, logs>>]_vars
    /\ [][~SwapStep =>
            UNCHANGED <<routes, engine, middlewareChain, httpHandler, shutdownTimeout,
                        readTimeout>>]_vars

\* the server started with ConfigA (timeouts unset) now serves ConfigB, whose
\* file asks for a shutdown timeout of 5 s and a read timeout of 7 s
WitC32_NewConfigOldTimeouts ==
    /\ lastReload = "ok"
    /\ middlewareChain = [gen |-> 1, timeout |-> TRUE]
    /\ routes = CompileRoutes(ConfigB.Routes, 1).routes
    /\ shutdownTimeout = 30
    /\ readTimeout = 15

\* C33: every request that ServeHTTP has finished has exactly one
\* "request processed" entry, and the status of that entry is the status
\* the client was sent (requests that did not pass through the timeout
\* middleware, whose own 408 is the subject of C37).
CexC33_LoggedOnceWithSentStatus ==
    \A r \in Conns :
        (pc[r] = "done" /\ mw[r] = "none") =>
            /\ Len(logs[r]) = 1
            /\ logs[r][1] = resp[r].status

\* ------------------------------------------ middleware.ResponseWriter
\* NewResponseWriter
NewResponseWriter == [status |-> 200, size |-> 0, wroteHeader |-> FALSE]

Status(w) == w.status
Size(w) == w.size
Written(w) == w.wroteHeader

\* variant of WriteHeader without the wroteHeader check: every call sets the
\* status and is forwarded
rwWriteHeaderEvery(s, code) ==
    [rw |-> [s.rw EXCEPT !.status = code, !.wroteHeader = TRUE],
     under |-> [s.under EXCEPT !.codes = Append(@, code)]]

\* ResponseWriter.WriteHeader on the pair s = [rw, under]
rwWriteHeader(s, code) ==
    IF s.rw.wroteHeader THEN s
    ELSE [rw |-> [s.rw EXCEPT !.status = code, !.wroteHeader = TRUE],
          under |-> [s.under EXCEPT !.codes = Append(@, code)]]

\* ResponseWriter.Write of a slice of which the wrapped Write takes n bytes
rwWrite(s, n) ==
    LET s1 == IF ~s.rw.wroteHeader THEN rwWriteHeader(s, 200) ELSE s
    IN  [rw |-> [s1.rw EXCEPT !.size = @ + n],
         under |-> [s1.under EXCEPT !.bytes = @ + n]]

StatusCodes == {200, 404, 500}

InitWriter ==
    /\ MatchOff
    /\ ServerOff
    /\ ShutdownOff
    /\ WatcherOff
    /\ ChainOff
    /\ AuthOff
    /\ HeadersOff
    /\ TimeoutOff
    /\ rwpc = "on"
    /\ rw = NewResponseWriter
    /\ under = NoUnder
    /\ rwHist = NoHist

\* a handler calls w.WriteHeader(code)
WriterWriteHeader(code) ==
    /\ rwpc = "on"
    /\ rwHist.calls < MaxCalls
    /\ rw' = rwWriteHeader([rw |-> rw, under |-> under], code).rw
    /\ under' = rwWriteHeader([rw |-> rw, under |-> under], code).under
    /\ rwHist' = [rwHist EXCEPT !.first = IF @ = 0 THEN code ELSE @,
                                !.calls = @ + 1, !.last = "WriteHeader"]
    /\ UNCHANGED rwpc
    /\ UNCHANGED exceptWriter

\* a handler calls w.Write(b) with len(b) = len; the wrapped writer takes n
\* of the bytes (n < len with an error)
WriterWrite(len, n) ==
    /\ rwpc = "on"
    /\ rwHist.calls < MaxCalls
    /\ n <= len
    /\ rw' = rwWrite([rw |-> rw, under |-> under], n).rw
    /\ under' = rwWrite([rw |-> rw, under |-> under], n).under
    /\ rwHist' = [rwHist EXCEPT !.first = IF @ = 0 THEN 200 ELSE @,
                                !.returned = @ + n,
                                !.calls = @ + 1, !.last = "Write"]
    /\ UNCHANGED rwpc
    /\ UNCHANGED exceptWriter

NextWriter ==
    \/ \E code \in StatusCodes : WriterWriteHeader(code)
    \/ \E len \in 0..MaxWrite, n \in 0..MaxWrite : WriterWrite(len, n)

SpecWriter == InitWriter /\ [][NextWriter]_vars

\* C34: after any sequence of WriteHeader and Write calls on the wrapper, the
\* wrapped writer was given exactly one status, the one of the first
\* WriteHeader call or 200 when a Write came first, and Status() returns it;
\* before any call the wrapped writer was given none; Size() is the sum of
\* the byte counts the wrapped Write returned; Written() holds iff a header
\* was written; and a WriteHeader call on a wrapper whose header is written
\* changes neither the wrapper nor the wrapped writer.
ThmC34_WrapperRecordsFirstStatus ==
    /\ [](rwpc = "on" =>
            /\ rwHist.first # 0 => under.codes = <<rwHist.first>> /\ Status(rw) = rwHist.first
            /\ rwHist.first = 0 => under.codes = <<>>
            /\ Size(rw) = rwHist.returned
            /\ Size(rw) = under.bytes
            /\ Written(rw) <=> under.codes # <<>>)
    /\ [][(rwpc = "on" /\ Written(rw) /\ rwHist'.last = "WriteHeader" /\ rwHist'.calls = rwHist.calls + 1)
            => UNCHANGED <<rw, under>>]_vars

WitC34_SecondStatusIgnored ==
    /\ rwpc = "on" /\ rwHist.calls = 4 /\ rwHist.last = "WriteHeader"
    /\ rwHist.first = 404 /\ Status(rw) = 404 /\ under.codes = <<404>>
    /\ Size(rw) = 3

\* the request carries the header of the compiled predicate m (names
\* compared ignoring case) and the first value it carries satisfies m
PresentAndSatisfied(m, rq) ==
    \E rh \in rq.Header :
        /\ ToLower(rh.name) = ToLower(m.name)
        /\ Len(rh.values) > 0
        /\ matchHeaderValue(rh.values[1], m)

\* C35: a route whose method and path match the request matches it whenever
\* every header predicate of the route is satisfied by the value of a header
\* present in the request, a header present with an empty value included:
\* only a header that is absent makes the route fail for a missing header.
CexC35_EmptyValueIsPresent ==
    mpc = "matched" =>
        \A i \in DOMAIN mone :
            (/\ MatchRequestNoHeaders(mroutes.routes[i], mreq).ok
             /\ \A m \in mroutes.routes[i].MatchHeaders : PresentAndSatisfied(m, mreq))
                => mone[i].ok

\* ------------------------------------------------- TimeoutMiddleware
\* http.Error: Content-Type text/plain, WriteHeader(code), the message
httpError(w, msg, code) ==
    Write(WriteHeader(HeaderSet(w, ContentType, <<"text/plain">>), code), msg)

\* net/http when the outermost handler returns: a response nobody wrote a
\* status for goes out as 200 with what was written (nothing)
finishRequest(w) == IF w.status = 0 THEN WriteHeader(w, 200) ELSE w

\* what the deferred function of the handler goroutine puts on done: the
\* first version recovers and closes the channel whether or not there was a
\* panic, the second sends http.ErrAbortHandler after a panic and nil otherwise
deferredDone(build, paniced) ==
    IF build = 1 THEN "closed" ELSE IF paniced THEN "err" ELSE "nil"

InitTimeout ==
    /\ MatchOff
    /\ ServerOff
    /\ ShutdownOff
    /\ WatcherOff
    /\ ChainOff
    /\ AuthOff
    /\ HeadersOff
    /\ WriterOff
    /\ tmpc = "wait"
    /\ tmBuild \in {1, 2}
    /\ tmHandler = "run"
    /\ tmDone = "empty"
    /\ tmCtx = FALSE
    /\ tmResp = NoResponse
    /\ tmVia = "none"

\* the wrapped handler writes a response part: WriteHeader(code), Write
TimeoutHandlerWrite(code) ==
    /\ tmpc # "off"
    /\ tmHandler = "run"
    /\ Len(tmResp.body) < MaxWrite
    /\ LET nw == Write(WriteHeader(tmResp, code), <<"b">>)
       IN  tmResp' \in (IF tmpc = "ret" THEN {tmResp, nw} ELSE {nw})
    /\ UNCHANGED <<tmpc, tmBuild, tmHandler, tmDone, tmCtx, tmVia>>
    /\ UNCHANGED exceptTimeout

\* next.ServeHTTP returns
TimeoutHandlerReturn ==
    /\ tmpc # "off"
    /\ tmHandler = "run"
    /\ tmHandler' = "returned"
    /\ tmDone' = deferredDone(tmBuild, FALSE)
    /\ UNCHANGED <<tmpc, tmBuild, tmCtx, tmResp, tmVia>>
    /\ UNCHANGED exceptTimeout

\* next.ServeHTTP panics; the deferred function recovers
TimeoutHandlerPanic ==
    /\ tmpc # "off"
    /\ tmHandler = "run"
    /\ tmHandler' = "panicked"
    /\ tmDone' = deferredDone(tmBuild, TRUE)
    /\ UNCHANGED <<tmpc, tmBuild, tmCtx, tmResp, tmVia>>
    /\ UNCHANGED exceptTimeout

\* the deadline of context.WithTimeout passes
TimeoutDeadline ==
    /\ tmpc = "wait"
    /\ ~tmCtx
    /\ tmCtx' = TRUE
    /\ UNCHANGED <<tmpc, tmBuild, tmHandler, tmDone, tmResp, tmVia>>
    /\ UNCHANGED exceptTimeout

\* select, case <-done: the first version returns; the second answers 500
\* after a panic unless the wrapper's header is written
TimeoutSelectDone ==
    /\ tmpc = "wait"
    /\ tmDone # "empty"
    /\ tmResp' = finishRequest(IF tmBuild = 2 /\ tmDone = "err" /\ tmResp.status = 0
                               THEN httpError(tmResp, <<"internal server error">>, 500)
                               ELSE tmResp)
    /\ tmpc' = "ret"
    /\ tmVia' = "done"
    /\ tmCtx' = TRUE
    /\ UNCHANGED <<tmBuild, tmHandler, tmDone>>
    /\ UNCHANGED exceptTimeout

\* select, case <-ctx.Done(): the first version sets Content-Type and writes
\* 408 and its message; the second answers 408 unless the wrapper's header
\* is written
TimeoutSelectTimeout ==
    /\ tmpc = "wait"
    /\ tmCtx
    /\ tmResp' = finishRequest(IF tmBuild = 1 THEN middlewareTimeout(tmResp)
                               ELSE IF tmResp.status = 0
                                    THEN httpError(tmResp, <<"request timeout">>, 408)
                                    ELSE tmResp)
    /\ tmpc' = "ret"
    /\ tmVia' = "timeout"
    /\ UNCHANGED <<tmBuild, tmHandler, tmDone, tmCtx>>
    /\ UNCHANGED exceptTimeout

NextTimeout ==
    \/ \E code \in StatusCodes : TimeoutHandlerWrite(code)
    \/ TimeoutHandlerReturn
    \/ TimeoutHandlerPanic
    \/ TimeoutDeadline
    \/ TimeoutSelectDone
    \/ TimeoutSelectTimeout

SpecTimeout == InitTimeout /\ [][NextTimeout]_vars

\* C36: when the handler wrapped by the timeout middleware panics and the
\* middleware returns on the handler's completion, the response the client
\* gets has a 5xx status; it is never a success status with an empty body.
CexC36_PanicIsErrorResponse ==
    (tmpc = "ret" /\ tmVia = "done" /\ tmHandler = "panicked") =>
        /\ tmResp.status \in 500..599
        /\ ~(tmResp.status \in 200..299 /\ tmResp.body = <<>>)

\* the 408 message of the dispatcher / of the timeout middleware is part of
\* the response of request r
DispatcherWrote408(r) == Msg408[1] \in Range(resp[r].body)
MiddlewareWrote408(r) == Msg408Middleware[1] \in Range(resp[r].body)

\* C37: no response carries a 408 written by the timeout middleware and a
\* 408 written by the dispatcher: when both observe the expiry of the
\* request context, only one of them writes.
CexC37_One408Writer ==
    \A r \in Reqs : ~(DispatcherWrote408(r) /\ MiddlewareWrote408(r))

\* C38: nothing is written on the response writer of a request once the
\* outermost handler of that request has returned: after the timeout
\* middleware answered 408 and returned, the dispatcher it left running sets
\* no header and writes no status or body on that response.
CexC38_NoWriteAfterReturn ==
    [][\A r \in Reqs : closed[r] => (late'[r] = late[r] /\ (pc'[r] # "idle" => resp'[r] = resp[r]))]_vars

\* the headers that went out with the status line of request r are the
\* Content-Type of the error handlers and nothing else
OnlyPlainContentType(r) ==
    \A h \in resp[r].sent : h.name = ContentType /\ h.value = <<"text/plain">>

\* C39: a 500 or 408 response to a request that matched a route carries none
\* of the route's custom response headers and has the Content-Type of the
\* error handlers (requests that did not pass through the timeout
\* middleware).
CexC39_NoCustomHeadersOnError ==
    \A r \in Reqs :
        (mw[r] = "none" /\ pc[r] = "done" /\ ~rmatch[r].nil /\ resp[r].status \in {500, 408}) =>
            /\ OnlyPlainContentType(r)
            /\ \A h \in rmatch[r].Route.ResponseHeaders :
                   h.name # ContentType => h.name \notin {s.name : s \in resp[r].sent}

\* the body render goroutine of request r reads s.engine in this step
ReadsEngine(r) == render[r].state = "running" /\ render'[r].state # "running"

\* C40: the body render goroutine reads the engine reference only while the
\* dispatcher of its request is in its select holding the read lock, never
\* after the dispatcher timed out and released it.
CexC40_EngineReadUnderReadLock ==
    [][\A r \in Reqs : ReadsEngine(r) => (pc[r] = "select" /\ mu.readerCount > 0)]_vars

================================================================
